---- MODULE Spec2Model ----
(***************************************************************************)
(* Verification model of the Atlas coupled-oscillator core:                *)
(*   - algorithms/creation_protocols.py : the multi-gate creation verdict  *)
(*   - sims/creation.py                 : anchors, crystallization window, *)
(*                                        edge birth, small-world rewiring *)
(*   - sims/multilayer_resonance.py,                                       *)
(*     sims/community_kuramoto.py       : matrix small-world rewiring      *)
(*   - the upward-crossing + hold-time event detector                      *)
(*                                                                         *)
(* Number representation.  R values are integers in tenths (8 = 0.8), gap  *)
(* values are integers in tenths of a radian, slopes are exact rationals   *)
(* [num, den] with den > 0, phases of the gate detector are multiples of   *)
(* pi/2 held as a direction index, and every comparison the code makes on  *)
(* floats is made here on the exact rational value.                        *)
(***************************************************************************)
EXTENDS Integers, Sequences, FiniteSets, TLC

VARIABLES
    \* ---- creation_protocols.evaluate_gates: arguments and returned dict
    R_series, gap_series, phases_hist, cfg, sovereignty_ok, summary,
    \* ---- small-world construction
    nbrs,       \* creation.py: neighbour set of every node
    ws_i,       \* watts_strogatz: outer loop index i
    ws_todo,    \* watts_strogatz: part of list(nbrs[i]) not yet visited
    ws_pc,      \* "rewire" while the rewiring loop runs, then "done"
    A,          \* multilayer_resonance / community_kuramoto: adjacency matrix,
                \* held as the set of <<i, j>> with A[i, j] = 1
    ml_i, ml_j, \* matrix rewiring: loop indices i, j
    ml_pc,      \* "rewire" while the matrix rewiring loop runs, then "done"
    rw,         \* locals of the last rewire: [i, j, new], or NoRewire
    \* ---- creation.simulate
    grow_budget,    \* cfg.grow_budget of the run
    t,              \* loop index
    sim_pc,         \* position in the loop body, "done" after the loop
    phases,         \* node -> 0 (phase 0) or 1 (phase pi)
    r,              \* node -> resource, hundredths
    is_anchor, anchor_age,
    decay_prob,     \* node -> drop probability of the last decay pass
    Rbuf, wptr, warm,
    edges_left, creation_events,
    eligible,       \* eligible nodes of the growth check in progress
    batch_left,     \* iterations left of  for _ in range(batch)
    \* ---- upward-crossing + hold-time event detector
    ev_R, ev_K, ev_anchors,     \* recorded series: R, coupling, anchor fraction
    ev_i,                       \* scan index (0-based)
    events,                     \* emitted events <<time, R, coupling>>
    ev_pc,                      \* "scan" or "done"
    \* ---- multi_scale_kuramoto topology builders
    geom,       \* the shape descriptor given to the builder
    adj,        \* the adjacency returned: <<i, j>> -> weight in tenths
    topo_pc,    \* "build" before the builder has run, then "done"
    \* ---- environment_drivers
    drv,        \* the driver: [kind, dt_scale, drivers], drivers a sequence
                \* of components [freq, amplitude, phase0]
    drv_t,      \* t_index of the last phase_at call
    drv_phi,    \* the angle it returned, in units of pi/4
    drv_pc,     \* "idle" or "called"
    \* ---- multilayer_resonance.euler_step_multilayer
    ms_in,          \* arguments: [layers, omega, K_node, gamma, noisy]
    ms_theta,       \* the argument theta: layer -> node -> phase, units of pi/4
    ms_dtheta,      \* the local dtheta: layer -> node -> <<p, q>>, p + q * sqrt(2)/2
    ms_layers_todo, \* layers the coupling loop has not visited
    ms_nodes_todo,  \* nodes the interlayer loop has not visited
    ms_noise,       \* the noise drawn, layer -> node
    ms_out,         \* the returned phases: layer -> node -> [base, d]
    ms_pc,          \* "coupling", "interlayer", "noise", then "done"
    \* ---- windowed metrics
    win_in,         \* [kind, X, win]: the series and the window length given
    win_out,        \* the array returned, one entry per index (0-based: out[t + 1])
    lock_buffer,    \* compute_timeseries: the rolling lock memory
    buf_i,          \* compute_timeseries: write position in lock_buffer
    win_t,          \* compute_timeseries: loop index
    win_pc,         \* "run", then "done"
    \* ---- two runs of one simulator with the same configuration and seed
    rr_cfg,         \* [kind, seed, noisy]: the simulator and its configuration
    rr_glob,        \* run -> state of the process-wide np.random generator
    rr_pos,         \* run -> number of draws taken from the run's seeded generator
    rr_t,           \* run -> -1 before the setup, then the loop index
    rr_out,         \* run -> the values drawn, in order (they decide the output)
    \* ---- input sizes given to a simulator
    sh_in,          \* [fn, N, adjacency, groups, omega]: sizes supplied, -1 for absent
    sh_out,         \* [raised] or [raised, N, adjacency]: what the simulator runs with
    sh_pc,          \* "call", then "done"
    \* ---- one session of the event detector
    det_in,         \* [R, gap, hist, cfg, sov, events]: what the detector is fed
    det_summary,    \* result of evaluate_gates, Pending before the call
    det_recs,       \* result of tuning_recommendations, Pending before the call
    det_births,     \* result of detect_births, Pending before the call
    det_events,     \* shape of creation_events, Pending before simulate returns
    \* ---- ConsciousnessArchitecture
    ca_cfg,         \* [E, S, O, lock_threshold, resonant_cut, hash]: fixed at construction
    ca_signals,     \* state.signals
    ca_osc,         \* state.oscillations: its keys in insertion order
    ca_depth,       \* state.recursion_depth
    ca_coherence,   \* state.coherence, in units of 1/4000
    ca_expression,  \* state.expression
    ca_lock,        \* state.atlas_lock
    ca_last,        \* the last method called
    \* ---- crystallization_points.simulate
    cp_K,           \* cfg.K, tenths
    cp_nbrs,        \* node -> set of neighbours
    cp_phases,      \* node -> Fin(0) (phase 0), Fin(1) (phase pi) or NaN
    cp_r,           \* node -> resource, Fin(hundredths) or NaN
    cp_is_anchor,   \* is_anchor
    cp_anchor_age,  \* anchor_age
    cp_R_local,     \* R_local: the rows written so far, row t at position t + 1
    cp_Rbuf,        \* Rbuf: row index -> node -> local coherence
    cp_wptr,        \* wptr
    cp_warm,        \* warm
    cp_t,           \* loop index
    cp_pc,          \* position in the loop body, "done" after the loop
    \* ---- scheduled interventions
    iv_in,          \* [fn, ivs]: the simulator and its intervention list
    iv_t,           \* loop index
    iv_K,           \* K_base (multilayer_resonance) / K_t (community_kuramoto): "base" or "raised"
    iv_used,        \* the coupling handed to the step at t = 0, 1, ...
    iv_pc           \* "loop", then "done"

gateVars == <<R_series, gap_series, phases_hist, cfg, sovereignty_ok, summary>>
wsVars == <<nbrs, ws_i, ws_todo, ws_pc>>
mlVars == <<A, ml_i, ml_j, ml_pc>>
simVars == <<grow_budget, t, sim_pc, phases, r, is_anchor, anchor_age, decay_prob, Rbuf, wptr,
             warm, edges_left, creation_events, eligible, batch_left>>
evVars == <<ev_R, ev_K, ev_anchors, ev_i, events, ev_pc>>
topoVars == <<geom, adj, topo_pc>>
drvVars == <<drv, drv_t, drv_phi, drv_pc>>
stepVars == <<ms_in, ms_theta, ms_dtheta, ms_layers_todo, ms_nodes_todo, ms_noise, ms_out, ms_pc>>
winVars == <<win_in, win_out, lock_buffer, buf_i, win_t, win_pc>>
runVars == <<rr_cfg, rr_glob, rr_pos, rr_t, rr_out>>
shapeVars == <<sh_in, sh_out, sh_pc>>
detVars == <<det_in, det_summary, det_recs, det_births, det_events>>
caVars == <<ca_cfg, ca_signals, ca_osc, ca_depth, ca_coherence, ca_expression, ca_lock, ca_last>>
cpVars == <<cp_K, cp_nbrs, cp_phases, cp_r, cp_is_anchor, cp_anchor_age, cp_R_local, cp_Rbuf, cp_wptr, cp_warm, cp_t, cp_pc>>
ivVars == <<iv_in, iv_t, iv_K, iv_used, iv_pc>>
auxVars == <<topoVars, drvVars, stepVars, winVars, runVars, shapeVars, detVars, caVars, cpVars, ivVars>>
vars == <<gateVars, wsVars, mlVars, rw, simVars, evVars, auxVars>>

(***************************************************************************)
(* Bounds of the gate-detector inputs                                      *)
(***************************************************************************)
MaxT == 5           \* longest R series
MaxGapT == 2        \* longest gap series
MaxHistT == 2       \* most rows of the phase history

RValues == {5, 8}               \* R samples, tenths
GapValues == {-2, 1}            \* signed phase gaps, tenths of a radian
Directions == {0, 1, 2}         \* phase = direction * pi/2

(***************************************************************************)
(* Generic helpers                                                         *)
(***************************************************************************)
RECURSIVE SeqSum(_)
SeqSum(s) == IF s = <<>> THEN 0 ELSE Head(s) + SeqSum(Tail(s))

Abs(x) == IF x < 0 THEN -x ELSE x

SeqsUpTo(S, n) == UNION { [1..k -> S] : k \in 0..n }

\* y[-w:]
LastW(y, w) == SubSeq(y, Len(y) - w + 1, Len(y))

(***************************************************************************)
(* GateConfig.  Windows are shortened so that the bounded series fill      *)
(* them; the slope limits and the clustering parameters are the defaults.  *)
(*   r_trend_min_slope  = 1e-4 per step  = 1/1000 tenths per step          *)
(*   gap_trend_max_slope = -1e-4         = -1/1000 tenths per step         *)
(*   anchor_eps is held as cos^2(eps); cos^2(0.35) = 0.8824..              *)
(***************************************************************************)
GateConfig ==
    [ r_trend_window |-> 2, r_min |-> 6,
      r_trend_min_slope |-> [num |-> 1, den |-> 1000],
      gap_trend_window |-> 2,
      gap_trend_max_slope |-> [num |-> -1, den |-> 1000],
      anchor_eps_cos2 |-> [num |-> 88, den |-> 100],
      anchor_window |-> 2,
      anchor_min_fraction |-> [num |-> 1, den |-> 10],
      birth_r_threshold |-> 7, birth_min_duration |-> 1,
      birth_cluster_max_gaps |-> 2, min_births_for_cluster |-> 2 ]

GateConfigs == { GateConfig, [GateConfig EXCEPT !.r_trend_window = 3] }

(***************************************************************************)
(* moving_slope: least-squares slope of the last w samples, None when the  *)
(* series is shorter than w or w < 2.                                      *)
(***************************************************************************)
NoSlope == [none |-> TRUE, num |-> 0, den |-> 1]

moving_slope(y, w) ==
    IF Len(y) < w \/ w < 2 THEN NoSlope
    ELSE LET yw  == LastW(y, w)
             Sx  == SeqSum([k \in 1..w |-> k - 1])
             Sxx == SeqSum([k \in 1..w |-> (k - 1) * (k - 1)])
             Sy  == SeqSum(yw)
             Sxy == SeqSum([k \in 1..w |-> (k - 1) * yw[k]])
         IN  [none |-> FALSE, num |-> w * Sxy - Sx * Sy, den |-> w * Sxx - Sx * Sx]

\* slope >= limit / slope <= limit on exact rationals (all denominators > 0)
SlopeGE(s, lim) == s.num * lim.den >= lim.num * s.den
SlopeLE(s, lim) == s.num * lim.den <= lim.num * s.den

(***************************************************************************)
(* order_parameter / anchor_persistence on direction-valued phases.        *)
(***************************************************************************)
DirX(d) == CASE d = 0 -> 1 [] d = 1 -> 0 [] d = 2 -> -1 [] OTHER -> 0
DirY(d) == CASE d = 0 -> 0 [] d = 1 -> 1 [] d = 2 -> 0 [] OTHER -> -1

\* the (unnormalised) mean phasor of one row; np.angle(0) is 0, i.e. (1, 0)
MeanVec(row) ==
    LET X == SeqSum([k \in 1..Len(row) |-> DirX(row[k])])
        Y == SeqSum([k \in 1..Len(row) |-> DirY(row[k])])
    IN  IF X = 0 /\ Y = 0 THEN <<1, 0>> ELSE <<X, Y>>

\* |wrap_angle(theta - psi)| <= eps  <=>  cos(theta - psi) >= cos(eps)
WithinEps(d, S, c2) ==
    LET dot == DirX(d) * S[1] + DirY(d) * S[2]
        n2  == S[1] * S[1] + S[2] * S[2]
    IN  dot >= 0 /\ dot * dot * c2.den >= c2.num * n2

anchor_persistence(hist, c2, window) ==
    IF Len(hist) < window THEN [num |-> 0, den |-> 1]
    ELSE LET tail == LastW(hist, window)
             S == MeanVec(tail[Len(tail)])
             nodes == 1..Len(tail[1])
             locked == { n \in nodes :
                           \A k \in 1..Len(tail) : WithinEps(tail[k][n], S, c2) }
         IN  [num |-> Cardinality(locked), den |-> Len(tail[1])]

(***************************************************************************)
(* detect_births: start indices (0-based) of the runs of R >= threshold    *)
(* that last at least min_duration samples.                                *)
(***************************************************************************)
RECURSIVE RunEnd(_, _)
\* the inner while: first 0-based index >= i that is not above, or T
RunEnd(above, i) ==
    IF i < Len(above) /\ above[i + 1] THEN RunEnd(above, i + 1) ELSE i

RECURSIVE births_scan(_, _, _, _)
births_scan(above, i, min_duration, births) ==
    IF i >= Len(above) THEN births
    ELSE IF above[i + 1]
         THEN LET e == RunEnd(above, i)
              IN  births_scan(above, e + 1, min_duration,
                              IF e - i >= min_duration THEN Append(births, i)
                              ELSE births)
         ELSE births_scan(above, i + 1, min_duration, births)

\* mutant: every interval is reported, however short
detect_births_any_length(R, threshold, min_duration) ==
    births_scan([k \in 1..Len(R) |-> R[k] >= threshold], 0, 0, <<>>)

detect_births(R, threshold, min_duration) ==
    births_scan([k \in 1..Len(R) |-> R[k] >= threshold], 0, min_duration, <<>>)

(***************************************************************************)
(* is_clustered: np.percentile(gaps, 50) is the median with linear         *)
(* interpolation; it is held doubled so that it stays an integer.          *)
(***************************************************************************)
RECURSIVE Insert(_, _)
Insert(s, x) ==
    IF s = <<>> THEN <<x>>
    ELSE IF x <= Head(s) THEN <<x>> \o s ELSE <<Head(s)>> \o Insert(Tail(s), x)

RECURSIVE Sorted(_)
Sorted(s) == IF s = <<>> THEN <<>> ELSE Insert(Sorted(Tail(s)), Head(s))

Median2(g) ==
    LET s == Sorted(g)
        n == Len(s)
    IN  IF n % 2 = 1 THEN 2 * s[(n + 1) \div 2] ELSE s[n \div 2] + s[n \div 2 + 1]

\* mutant: two births are a cluster
is_clustered_pair(indices, max_gaps) == Len(indices) >= 2

is_clustered(indices, max_gaps) ==
    IF Len(indices) < 2 THEN FALSE
    ELSE LET gaps == [k \in 1..(Len(indices) - 1) |-> indices[k + 1] - indices[k]]
             small == { k \in 1..Len(gaps) : 2 * gaps[k] <= Median2(gaps) }
         IN  Cardinality(small) >= max_gaps \/ Len(indices) >= 3

(***************************************************************************)
(* evaluate_gates                                                          *)
(***************************************************************************)
\* mutant: the sovereignty gate is not taken from the caller
sovereignty_gate_computed(sov) == TRUE

\* sovereignty = bool(sovereignty_ok)
sovereignty_gate(sov) == sov

\* mutant: the verdict forgets the birth-clustering gate
all_pass_four(cr, gn, ao, bo, sv) == cr /\ gn /\ ao /\ sv

\* all_pass = coherence_rising and gap_narrowing and anchors_ok and births_ok
\*            and sovereignty
all_pass_of(cr, gn, ao, bo, sv) == cr /\ gn /\ ao /\ bo /\ sv

evaluate_gates(R, gap, hist, c, sov) ==
    LET r_slope == moving_slope(R, c.r_trend_window)
        r_now == IF Len(R) > 0 THEN R[Len(R)] ELSE 0
        coherence_rising == ~r_slope.none /\ SlopeGE(r_slope, c.r_trend_min_slope)
                            /\ r_now >= c.r_min
        gap_abs == [k \in 1..Len(gap) |-> Abs(gap[k])]
        gap_slope == moving_slope(gap_abs, c.gap_trend_window)
        gap_narrowing == ~gap_slope.none /\ SlopeLE(gap_slope, c.gap_trend_max_slope)
        anchor_frac == anchor_persistence(hist, c.anchor_eps_cos2, c.anchor_window)
        anchors_ok == anchor_frac.num * c.anchor_min_fraction.den
                        >= c.anchor_min_fraction.num * anchor_frac.den
        births == detect_births(R, c.birth_r_threshold, c.birth_min_duration)
        clustered == is_clustered(births, c.birth_cluster_max_gaps)
        births_ok == Len(births) >= c.min_births_for_cluster /\ clustered
        sovereignty == sovereignty_gate(sov)
        all_pass == all_pass_of(coherence_rising, gap_narrowing, anchors_ok,
                                births_ok, sovereignty)
    IN  [ gates |-> [ coherence_rising |-> coherence_rising,
                      gap_narrowing |-> gap_narrowing,
                      anchor_persistence |-> anchors_ok,
                      birth_clustering |-> births_ok,
                      sovereignty |-> sovereignty ],
          metrics |-> [ R_now |-> r_now, R_slope |-> r_slope,
                        gap_slope |-> gap_slope, anchor_fraction |-> anchor_frac,
                        birth_indices |-> births ],
          creation |-> all_pass ]

\* no call of evaluate_gates has returned yet
NoSummary == [ gates |-> [ coherence_rising |-> FALSE, gap_narrowing |-> FALSE,
                           anchor_persistence |-> FALSE, birth_clustering |-> FALSE,
                           sovereignty |-> FALSE ],
               metrics |-> [ R_now |-> 0, R_slope |-> NoSlope, gap_slope |-> NoSlope,
                             anchor_fraction |-> [num |-> 0, den |-> 1],
                             birth_indices |-> <<>> ],
               creation |-> FALSE,
               pending |-> TRUE ]

(***************************************************************************)
(* Small-world construction.                                               *)
(***************************************************************************)
TopoNodes == 5      \* N of the topology builders

NodeSet(n) == 0..(n - 1)
NoRewire == [i |-> -1, j |-> -1, new |-> -1]

\* creation.watts_strogatz, lines 96-100: the ring lattice
RingLattice(n, k) ==
    [i \in NodeSet(n) |-> UNION { {(i - j) % n, (i + j) % n} : j \in 1..(k \div 2) }]

\* mutant: the target may be a current neighbour of i
choices_any(nb, n, i) == { x \in NodeSet(n) : x # i }

\* choices = [x for x in range(N) if x != i and x not in nbrs[i]]
choices(nb, n, i) == { x \in NodeSet(n) : x # i /\ x \notin nb[i] }

\* nbrs[i].remove(j); nbrs[j].remove(i); nbrs[i].add(new); nbrs[new].add(i)
\* (applied in this order: j and new are different nodes from i)
rewire(nb, i, j, new) ==
    LET a == [nb EXCEPT ![i] = @ \ {j}]
        b == [a EXCEPT ![j] = @ \ {i}]
        c == [b EXCEPT ![i] = @ \cup {new}]
    IN  [c EXCEPT ![new] = @ \cup {i}]

\* ring degrees given to the builders
RingDegrees == {2, 4}

(***************************************************************************)
(* Matrix rewiring (make_default_layers, community_kuramoto.simulate).     *)
(***************************************************************************)
\* A[i, j] = A[j, i] = 1 for j = (i + k) % N, k = 1 .. k_ring // 2
RingMatrix(n, k) ==
    UNION { { <<i, (i + d) % n>>, <<(i + d) % n, i>> } :
              i \in NodeSet(n), d \in 1..(k \div 2) }

\* r = rng.integers(0, N); while r == i: redraw
ml_targets(n, i) == { x \in NodeSet(n) : x # i }

\* A[i, j] = A[j, i] = 0; A[i, r] = A[r, i] = 1
ml_rewire(M, i, j, x) == (M \ { <<i, j>>, <<j, i>> }) \cup { <<i, x>>, <<x, i>> }

(***************************************************************************)
(* creation.simulate: configuration and helpers                            *)
(***************************************************************************)
SimSteps == 5       \* cfg.steps of the bounded runs

\* CreationConfig of the bounded runs: 4 nodes on a ring, a window of 2 steps,
\* a growth check every 2 steps.  Thresholds are the defaults (hundredths).
CreationConfig ==
    [ N |-> 4, steps |-> SimSteps, k_ring |-> 2, window |-> 2,
      thresh_R_local |-> 84, thresh_resource |-> 55,
      anchor_half_life |-> 2, starve_threshold |-> 35,
      grow_every |-> 2, grow_budgets |-> {1, 2},
      grow_batch_min |-> 1, grow_batch_max |-> 2,
      grow_require_R_local |-> 80, grow_require_r |-> 55 ]

SimN == CreationConfig.N
SimNodes == NodeSet(SimN)
W == CreationConfig.window

RECURSIVE Pow(_, _)
Pow(b, e) == IF e = 0 THEN 1 ELSE b * Pow(b, e - 1)

RECURSIVE Factorial(_)
Factorial(n) == IF n <= 1 THEN 1 ELSE n * Factorial(n - 1)

RECURSIVE SetSum(_, _)
\* sum of f[x] over the set S
SetSum(f, S) == IF S = {} THEN 0
                ELSE LET x == CHOOSE y \in S : TRUE IN f[x] + SetSum(f, S \ {x})

Min(a, b) == IF a < b THEN a ELSE b
Max(a, b) == IF a < b THEN b ELSE a

\* local coherence values are held as RScale * value, an integer for every
\* group size up to N
RScale == Factorial(SimN)

\* |mean(exp(1j * phases[group]))| for group = [i] + nbrs[i]; a phase is 0 or pi,
\* so the phasors are +1 and -1
local_R(i, ph, nb) ==
    IF nb[i] = {} THEN 0
    ELSE LET sgn == [j \in SimNodes |-> 1 - 2 * ph[j]]
             n == 1 + Cardinality(nb[i])
         IN  (RScale * Abs(sgn[i] + SetSum(sgn, nb[i]))) \div n

\* Rbuf.mean(axis=0)[i] >= limit   (limit in hundredths)
WindowMeanGE(buf, i, limit) ==
    100 * SetSum([k \in 0..(W - 1) |-> buf[k][i]], 0..(W - 1)) >= limit * W * RScale

\* mutant: promotion does not wait for the window to fill and averages the
\* rows recorded so far
to_anchor_cold(isa, buf, res, wm) ==
    { i \in SimNodes :
        /\ ~isa[i]
        /\ 100 * SetSum([k \in 0..(W - 1) |-> buf[k][i]], 0..(wm - 1))
              >= CreationConfig.thresh_R_local * wm * RScale
        /\ res[i] >= CreationConfig.thresh_resource }

\* mutant: promotion is tried once, at the step the window fills
to_anchor_once(isa, buf, res, wm) ==
    IF wm = W /\ t = W - 1
    THEN { i \in SimNodes : /\ ~isa[i]
                            /\ WindowMeanGE(buf, i, CreationConfig.thresh_R_local)
                            /\ res[i] >= CreationConfig.thresh_resource }
    ELSE {}

\* if warm == cfg.window: to_anchor = (~is_anchor) & (Rmean_local >= thresh_R_local)
\*                                    & (r >= thresh_resource)
to_anchor(isa, buf, res, wm) ==
    IF wm = W
    THEN { i \in SimNodes : /\ ~isa[i]
                            /\ WindowMeanGE(buf, i, CreationConfig.thresh_R_local)
                            /\ res[i] >= CreationConfig.thresh_resource }
    ELSE {}

\* A probability 1 - (num/den)^(1/root), exact.  np.zeros is 1 - (1/1)^(1/1).
ZeroProb == [num |-> 1, den |-> 1, root |-> 1]

\* mutant: the probability does not depend on the age
decay_prob_flat(age, hl) == [num |-> 1, den |-> 2, root |-> hl]

\* 1.0 - 0.5 ** (anchor_age / hl)
decay_prob_of(age, hl) == [num |-> 1, den |-> Pow(2, age), root |-> hl]

\* mutant: every anchor is treated as starving
starving_all(isa, res) == { i \in SimNodes : isa[i] }

\* starving = is_anchor & (r < cfg.starve_threshold)
starving_of(isa, res) ==
    { i \in SimNodes : isa[i] /\ res[i] < CreationConfig.starve_threshold }

\* mutant: a dropped anchor keeps its age
age_after_drop_kept(aged, drop) == aged

\* anchor_age[drop] = 0
age_after_drop(aged, drop) == [i \in SimNodes |-> IF i \in drop THEN 0 ELSE aged[i]]

\* u < p for a draw u = num/den in [0, 1)
DrawBelow(u, p) ==
    p.num * Pow(u.den, p.root) < p.den * Pow(u.den - u.num, p.root)

\* p < q
ProbLess(p, q) ==
    Pow(p.num, q.root) * Pow(q.den, p.root) > Pow(q.num, p.root) * Pow(p.den, q.root)

\* values of rng.random() tried for every node
Draws == { [num |-> 0, den |-> 1], [num |-> 1, den |-> 2], [num |-> 9, den |-> 10] }

\* eligible = where((Rbuf.mean(axis=0) >= grow_require_R_local) & (r >= grow_require_r))
eligible_of(buf, res) ==
    { i \in SimNodes : /\ WindowMeanGE(buf, i, CreationConfig.grow_require_R_local)
                       /\ res[i] >= CreationConfig.grow_require_r }

\* mutant: the pool is every other node
pool_any(u, nb) == { v \in SimNodes : v # u }

\* pool = [v for v in range(cfg.N) if v != u and v not in nbrs[u]]
pool(u, nb) == { v \in SimNodes : v # u /\ v \notin nb[u] }

\* mutant: the edge is put on one side only and an old edge is dropped
add_edge_replace(u, v, nb) ==
    IF v \notin nb[u] /\ u # v THEN [nb EXCEPT ![u] = {v}, ![v] = @ \cup {u}] ELSE nb

\* add_edge: if v not in su and u != v: su.add(v); sv.add(u)
add_edge(u, v, nb) ==
    IF v \notin nb[u] /\ u # v
    THEN [nb EXCEPT ![u] = @ \cup {v}, ![v] = @ \cup {u}]
    ELSE nb

\* mutant: the budget is not charged
edges_left_kept(e) == e

\* edges_left -= 1
edges_left_after(e) == e - 1

\* phase vectors and resource vectors the run is given and draws: the noise
\* terms of the integration have full support, so every vector can follow
\* every other
PhaseVectors == { [i \in SimNodes |-> IF i < k THEN 1 ELSE 0] : k \in 0..1 }
ResourceVectors ==
    { [i \in SimNodes |-> 60], [i \in SimNodes |-> IF i = 0 THEN 20 ELSE 60] }

\* topologies watts_strogatz hands to the run: the ring, the ring with edge
\* (0, 1) rewired to (0, 2), and the empty graph of k_ring < 2
SimTopologies ==
    { RingLattice(SimN, CreationConfig.k_ring),
      rewire(RingLattice(SimN, CreationConfig.k_ring), 0, 1, 2),
      RingLattice(SimN, 0) }

EdgeSet(nb) == { <<i, j>> \in SimNodes \X SimNodes : j \in nb[i] }

(***************************************************************************)
(* Upward-crossing + hold-time event detector (Event Detector, model (a)). *)
(* Series are 0-based: sample k of a series s is s[k + 1].                 *)
(***************************************************************************)
MaxEvT == 6         \* longest series given to the detector

\* thresholds of the bounded runs: R_event = 0.8, a hold window of 2 steps
\* (T_hold / dt), K_min = 0.5, anchors_min = 0.1
EventConfig == [ R_event |-> 8, hold_steps |-> 2, K_min |-> 5, anchors_min |-> 1 ]

EvRValues == {5, 9}
\* coupling series: always below K_min, always above, rising above at sample 3
EvKSeries(n) == { [k \in 1..n |-> 3], [k \in 1..n |-> 6],
                  [k \in 1..n |-> IF k <= 3 THEN 3 ELSE 6] }
\* anchor-fraction series: always above anchors_min, or falling to 0 at sample 4
EvAnchorSeries(n) == { [k \in 1..n |-> 2], [k \in 1..n |-> IF k <= 4 THEN 2 ELSE 0] }

\* mutant: any sample at/above the threshold counts as a crossing
is_crossing_level(R, i) == i < Len(R) /\ R[i + 1] >= EventConfig.R_event

\* R crosses from below to at/above the threshold at index i
is_crossing(R, i) ==
    /\ i >= 1 /\ i < Len(R)
    /\ R[i] < EventConfig.R_event
    /\ R[i + 1] >= EventConfig.R_event

\* mutant: the hold window is not required to be complete
held_partial(R, i) ==
    \A k \in i..(i + EventConfig.hold_steps - 1) :
        k < Len(R) => R[k + 1] >= EventConfig.R_event

\* R remains at/above the threshold for the full hold window starting at i
held(R, i) ==
    /\ i + EventConfig.hold_steps <= Len(R)
    /\ \A k \in i..(i + EventConfig.hold_steps - 1) : R[k + 1] >= EventConfig.R_event

\* guard conditions at the crossing index
guards(K, anchors, i) ==
    K[i + 1] >= EventConfig.K_min /\ anchors[i + 1] >= EventConfig.anchors_min

RECURSIVE plateau_end(_, _)
\* first index >= i with R below the threshold, or the length of the series
plateau_end(R, i) ==
    IF i < Len(R) /\ R[i + 1] >= EventConfig.R_event THEN plateau_end(R, i + 1) ELSE i

(***************************************************************************)
(* Initial values of the parts a specification does not run.               *)
(***************************************************************************)
InitGatesIdle ==
    /\ R_series = <<>> /\ gap_series = <<>> /\ phases_hist = <<>>
    /\ cfg = GateConfig /\ sovereignty_ok = TRUE /\ summary = NoSummary

InitWSIdle ==
    /\ nbrs = RingLattice(TopoNodes, 2) /\ ws_i = TopoNodes - 1 /\ ws_todo = {}
    /\ ws_pc = "done"

InitMLIdle ==
    /\ A = RingMatrix(TopoNodes, 2) /\ ml_i = TopoNodes /\ ml_j = TopoNodes
    /\ ml_pc = "done"

InitEvIdle ==
    /\ ev_R = <<>> /\ ev_K = <<>> /\ ev_anchors = <<>>
    /\ ev_i = 0 /\ events = <<>> /\ ev_pc = "done"

InitSimIdle ==
    /\ grow_budget = 0
    /\ t = 0 /\ sim_pc = "done"
    /\ phases = [i \in SimNodes |-> 0] /\ r = [i \in SimNodes |-> 60]
    /\ is_anchor = [i \in SimNodes |-> FALSE] /\ anchor_age = [i \in SimNodes |-> 0]
    /\ decay_prob = [i \in SimNodes |-> ZeroProb]
    /\ Rbuf = [k \in 0..(W - 1) |-> [i \in SimNodes |-> 0]] /\ wptr = 0 /\ warm = 0
    /\ edges_left = 0 /\ creation_events = <<>> /\ eligible = {} /\ batch_left = 0

InitTopoIdle == geom = [name |-> "none"] /\ adj = <<>> /\ topo_pc = "idle"

InitDrvIdle == drv = <<>> /\ drv_t = 0 /\ drv_phi = 0 /\ drv_pc = "idle"

InitStepIdle == ms_in = <<>> /\ ms_theta = <<>> /\ ms_dtheta = <<>> /\ ms_layers_todo = {} /\ ms_nodes_todo = {}
    /\ ms_noise = <<>> /\ ms_out = <<>> /\ ms_pc = "idle"

InitWinIdle == win_in = [kind |-> "none"] /\ win_out = <<>> /\ lock_buffer = <<>> /\ buf_i = 0 /\ win_t = 0
    /\ win_pc = "idle"

InitRunIdle == rr_cfg = [kind |-> "none"] /\ rr_glob = <<>> /\ rr_pos = <<>> /\ rr_t = <<>> /\ rr_out = <<>>

InitShapeIdle == sh_in = [fn |-> "none"] /\ sh_out = [raised |-> FALSE] /\ sh_pc = "idle"

InitDetIdle == det_in = [R |-> <<>>] /\ det_summary = <<>> /\ det_recs = <<>> /\ det_births = <<>> /\ det_events = <<>>

InitCaIdle == ca_cfg = [E |-> FALSE] /\ ca_signals = <<>> /\ ca_osc = <<>> /\ ca_depth = 0 /\ ca_coherence = 0
    /\ ca_expression = "None" /\ ca_lock = FALSE /\ ca_last = "idle"

InitCpIdle == cp_K = 0 /\ cp_nbrs = <<>> /\ cp_phases = <<>> /\ cp_r = <<>> /\ cp_is_anchor = <<>> /\ cp_anchor_age = <<>>
    /\ cp_R_local = <<>> /\ cp_Rbuf = <<>> /\ cp_wptr = 0 /\ cp_warm = 0 /\ cp_t = 0 /\ cp_pc = "idle"

InitIvIdle == iv_in = [fn |-> "none"] /\ iv_t = 0 /\ iv_K = "base" /\ iv_used = <<>> /\ iv_pc = "idle"

InitAuxIdle == InitTopoIdle /\ InitDrvIdle /\ InitStepIdle /\ InitWinIdle /\ InitRunIdle /\ InitShapeIdle /\ InitDetIdle /\ InitCaIdle /\ InitCpIdle /\ InitIvIdle

coreVars == <<gateVars, wsVars, mlVars, rw, simVars, evVars>>

InitCoreIdle ==
    /\ rw = NoRewire
    /\ InitGatesIdle /\ InitWSIdle /\ InitMLIdle /\ InitSimIdle /\ InitEvIdle

\* everything outside the Topo section
TopoOthers == <<coreVars, drvVars, stepVars, winVars, runVars, shapeVars, detVars, caVars, cpVars, ivVars>>
InitTopoOthers == InitCoreIdle /\ InitDrvIdle /\ InitStepIdle /\ InitWinIdle /\ InitRunIdle /\ InitShapeIdle /\ InitDetIdle /\ InitCaIdle /\ InitCpIdle /\ InitIvIdle

\* everything outside the Drv section
DrvOthers == <<coreVars, topoVars, stepVars, winVars, runVars, shapeVars, detVars, caVars, cpVars, ivVars>>
InitDrvOthers == InitCoreIdle /\ InitTopoIdle /\ InitStepIdle /\ InitWinIdle /\ InitRunIdle /\ InitShapeIdle /\ InitDetIdle /\ InitCaIdle /\ InitCpIdle /\ InitIvIdle

\* everything outside the Step section
StepOthers == <<coreVars, topoVars, drvVars, winVars, runVars, shapeVars, detVars, caVars, cpVars, ivVars>>
InitStepOthers == InitCoreIdle /\ InitTopoIdle /\ InitDrvIdle /\ InitWinIdle /\ InitRunIdle /\ InitShapeIdle /\ InitDetIdle /\ InitCaIdle /\ InitCpIdle /\ InitIvIdle

\* everything outside the Win section
WinOthers == <<coreVars, topoVars, drvVars, stepVars, runVars, shapeVars, detVars, caVars, cpVars, ivVars>>
InitWinOthers == InitCoreIdle /\ InitTopoIdle /\ InitDrvIdle /\ InitStepIdle /\ InitRunIdle /\ InitShapeIdle /\ InitDetIdle /\ InitCaIdle /\ InitCpIdle /\ InitIvIdle

\* everything outside the Run section
RunOthers == <<coreVars, topoVars, drvVars, stepVars, winVars, shapeVars, detVars, caVars, cpVars, ivVars>>
InitRunOthers == InitCoreIdle /\ InitTopoIdle /\ InitDrvIdle /\ InitStepIdle /\ InitWinIdle /\ InitShapeIdle /\ InitDetIdle /\ InitCaIdle /\ InitCpIdle /\ InitIvIdle

\* everything outside the Shape section
ShapeOthers == <<coreVars, topoVars, drvVars, stepVars, winVars, runVars, detVars, caVars, cpVars, ivVars>>
InitShapeOthers == InitCoreIdle /\ InitTopoIdle /\ InitDrvIdle /\ InitStepIdle /\ InitWinIdle /\ InitRunIdle /\ InitDetIdle /\ InitCaIdle /\ InitCpIdle /\ InitIvIdle

\* everything outside the Det section
DetOthers == <<coreVars, topoVars, drvVars, stepVars, winVars, runVars, shapeVars, caVars, cpVars, ivVars>>
InitDetOthers == InitCoreIdle /\ InitTopoIdle /\ InitDrvIdle /\ InitStepIdle /\ InitWinIdle /\ InitRunIdle /\ InitShapeIdle /\ InitCaIdle /\ InitCpIdle /\ InitIvIdle

\* everything outside the Ca section
CaOthers == <<coreVars, topoVars, drvVars, stepVars, winVars, runVars, shapeVars, detVars, cpVars, ivVars>>
InitCaOthers == InitCoreIdle /\ InitTopoIdle /\ InitDrvIdle /\ InitStepIdle /\ InitWinIdle /\ InitRunIdle /\ InitShapeIdle /\ InitDetIdle /\ InitCpIdle /\ InitIvIdle

\* everything outside the Cp section
CpOthers == <<coreVars, topoVars, drvVars, stepVars, winVars, runVars, shapeVars, detVars, caVars, ivVars>>
InitCpOthers == InitCoreIdle /\ InitTopoIdle /\ InitDrvIdle /\ InitStepIdle /\ InitWinIdle /\ InitRunIdle /\ InitShapeIdle /\ InitDetIdle /\ InitCaIdle /\ InitIvIdle

\* everything outside the Iv section
IvOthers == <<coreVars, topoVars, drvVars, stepVars, winVars, runVars, shapeVars, detVars, caVars, cpVars>>
InitIvOthers == InitCoreIdle /\ InitTopoIdle /\ InitDrvIdle /\ InitStepIdle /\ InitWinIdle /\ InitRunIdle /\ InitShapeIdle /\ InitDetIdle /\ InitCaIdle /\ InitCpIdle

(***************************************************************************)
(* Specification of the gate detector: the recorded series and the         *)
(* configuration are the inputs; every call evaluates them with a          *)
(* caller-supplied sovereignty flag.                                       *)
(***************************************************************************)
\* rows of the phase history: two nodes, the first one at direction 0
HistRows == { <<0, d>> : d \in Directions }

InitGates ==
    /\ R_series \in SeqsUpTo(RValues, MaxT)
    /\ gap_series \in SeqsUpTo(GapValues, MaxGapT)
    /\ phases_hist \in SeqsUpTo(HistRows, MaxHistT)
    /\ cfg \in GateConfigs
    /\ sovereignty_ok = TRUE
    /\ summary = NoSummary
    /\ InitWSIdle /\ InitMLIdle /\ InitSimIdle /\ InitEvIdle /\ rw = NoRewire
    /\ InitAuxIdle

EvaluateGates(sov) ==
    /\ sovereignty_ok' = sov
    /\ summary' = evaluate_gates(R_series, gap_series, phases_hist, cfg, sov)
    /\ UNCHANGED <<R_series, gap_series, phases_hist, cfg>>

NextGates == \E sov \in BOOLEAN : EvaluateGates(sov) /\ UNCHANGED <<wsVars, mlVars, rw, simVars, evVars, auxVars>>

\* ---- creation.watts_strogatz: the rewiring loop, one visit of (i, j) per step
InitWS ==
    /\ \E k \in RingDegrees : nbrs = RingLattice(TopoNodes, k)
    /\ ws_i = 0 /\ ws_todo = nbrs[0] /\ ws_pc = "rewire"
    /\ rw = NoRewire
    /\ InitGatesIdle /\ InitMLIdle /\ InitSimIdle /\ InitEvIdle
    /\ InitAuxIdle

\* j > i, rng.random() < p, and choices is not empty: the edge is rewired
WSRewire ==
    /\ ws_pc = "rewire"
    /\ \E j \in ws_todo :
         /\ j > ws_i
         /\ \E new \in choices(nbrs, TopoNodes, ws_i) :
              /\ nbrs' = rewire(nbrs, ws_i, j, new)
              /\ rw' = [i |-> ws_i, j |-> j, new |-> new]
         /\ ws_todo' = ws_todo \ {j}
    /\ UNCHANGED <<ws_i, ws_pc, gateVars, mlVars, simVars, evVars, auxVars>>

\* j <= i, or the draw is not below p, or there is no choice: nothing changes
WSKeep ==
    /\ ws_pc = "rewire"
    /\ \E j \in ws_todo : ws_todo' = ws_todo \ {j}
    /\ UNCHANGED <<nbrs, ws_i, ws_pc, rw, gateVars, mlVars, simVars, evVars, auxVars>>

\* the inner loop is over: next i
WSNextNode ==
    /\ ws_pc = "rewire" /\ ws_todo = {} /\ ws_i < TopoNodes - 1
    /\ ws_i' = ws_i + 1
    /\ ws_todo' = nbrs[ws_i + 1]
    /\ UNCHANGED <<nbrs, ws_pc, rw, gateVars, mlVars, simVars, evVars, auxVars>>

WSReturn ==
    /\ ws_pc = "rewire" /\ ws_todo = {} /\ ws_i = TopoNodes - 1
    /\ ws_pc' = "done"
    /\ UNCHANGED <<nbrs, ws_i, ws_todo, rw, gateVars, mlVars, simVars, evVars, auxVars>>

NextWS == WSRewire \/ WSKeep \/ WSNextNode \/ WSReturn

\* ---- matrix rewiring: one visit of (i, j), i < j, per step
InitML ==
    /\ \E k \in RingDegrees : A = RingMatrix(TopoNodes, k)
    /\ ml_i = 0 /\ ml_j = 1 /\ ml_pc = "rewire"
    /\ rw = NoRewire
    /\ InitGatesIdle /\ InitWSIdle /\ InitSimIdle /\ InitEvIdle
    /\ InitAuxIdle

\* the position after (i, j) in  for i in range(N): for j in range(i+1, N)
RECURSIVE ml_next(_, _, _)
ml_next(n, i, j) ==
    IF j + 1 < n THEN <<i, j + 1>>
    ELSE IF i + 1 >= n THEN <<n, n>>
    ELSE IF i + 2 < n THEN <<i + 1, i + 2>>
    ELSE ml_next(n, i + 1, i + 1)

MLAdvance ==
    LET nx == ml_next(TopoNodes, ml_i, ml_j)
    IN  /\ ml_i' = nx[1] /\ ml_j' = nx[2]
        /\ ml_pc' = IF nx[1] >= TopoNodes THEN "done" ELSE "rewire"

\* A[i, j] == 1 and rng.random() < p_rewire
MLRewire ==
    /\ ml_pc = "rewire"
    /\ <<ml_i, ml_j>> \in A
    /\ \E x \in ml_targets(TopoNodes, ml_i) :
         /\ A' = ml_rewire(A, ml_i, ml_j, x)
         /\ rw' = [i |-> ml_i, j |-> ml_j, new |-> x]
    /\ MLAdvance
    /\ UNCHANGED <<gateVars, wsVars, simVars, evVars, auxVars>>

\* no edge at (i, j), or the draw is not below p_rewire
MLKeep ==
    /\ ml_pc = "rewire"
    /\ MLAdvance
    /\ UNCHANGED <<A, rw, gateVars, wsVars, simVars, evVars, auxVars>>

NextML == MLRewire \/ MLKeep

(***************************************************************************)
(* creation.simulate: the loop body in four positions                      *)
(*   "observe" local coherence into the window, crystallization            *)
(*   "decay"   starve -> decay of anchors                                  *)
(*   "advance" logs, integration of the phases, resource update, and the   *)
(*             test that opens a growth check                              *)
(*   "grow"    one iteration of the edge-birth loop                        *)
(***************************************************************************)
InitSim ==
    /\ t = 0 /\ sim_pc = "observe"
    /\ phases \in PhaseVectors /\ r \in ResourceVectors
    /\ nbrs \in SimTopologies
    /\ ws_i = SimN - 1 /\ ws_todo = {} /\ ws_pc = "done"
    /\ is_anchor = [i \in SimNodes |-> FALSE] /\ anchor_age = [i \in SimNodes |-> 0]
    /\ decay_prob = [i \in SimNodes |-> ZeroProb]
    /\ Rbuf = [k \in 0..(W - 1) |-> [i \in SimNodes |-> 0]] /\ wptr = 0 /\ warm = 0
    /\ grow_budget \in CreationConfig.grow_budgets
    /\ edges_left = grow_budget
    /\ creation_events = <<>> /\ eligible = {} /\ batch_left = 0
    /\ rw = NoRewire
    /\ InitGatesIdle /\ InitMLIdle /\ InitEvIdle
    /\ InitAuxIdle

\* lines 191-204
Observe ==
    /\ sim_pc = "observe"
    /\ Rbuf' = [Rbuf EXCEPT ![wptr] = [i \in SimNodes |-> local_R(i, phases, nbrs)]]
    /\ wptr' = (wptr + 1) % W
    /\ warm' = Min(warm + 1, W)
    /\ LET ta == to_anchor(is_anchor, Rbuf', r, warm')
       IN  /\ is_anchor' = [i \in SimNodes |-> is_anchor[i] \/ i \in ta]
           /\ anchor_age' = [i \in SimNodes |-> IF i \in ta THEN 0 ELSE anchor_age[i]]
    /\ sim_pc' = "decay"
    /\ UNCHANGED <<grow_budget, t, phases, r, decay_prob, edges_left, creation_events, eligible,
                   batch_left, nbrs, ws_i, ws_todo, ws_pc, rw, gateVars, mlVars, evVars, auxVars>>

\* lines 206-214
Decay ==
    /\ sim_pc = "decay"
    /\ LET starving == starving_of(is_anchor, r)
           aged == [i \in SimNodes |-> IF is_anchor[i] THEN anchor_age[i] + 1
                                       ELSE anchor_age[i]]
           hl == Max(1, CreationConfig.anchor_half_life)
           dp == [i \in SimNodes |-> IF i \in starving THEN decay_prob_of(aged[i], hl)
                                     ELSE ZeroProb]
       \* drop = rng.random(cfg.N) < decay_prob; the draw of a node whose
       \* probability is 0 decides nothing and is not enumerated
       IN  \E u \in [starving -> Draws] :
             LET drop == { i \in starving : DrawBelow(u[i], dp[i]) }
             IN  /\ is_anchor' = [i \in SimNodes |-> is_anchor[i] /\ i \notin drop]
                 /\ anchor_age' = age_after_drop(aged, drop)
                 /\ decay_prob' = dp
    /\ sim_pc' = "advance"
    /\ UNCHANGED <<grow_budget, t, phases, r, Rbuf, wptr, warm, edges_left, creation_events,
                   eligible, batch_left, nbrs, ws_i, ws_todo, ws_pc, rw, gateVars,
                   mlVars, evVars, auxVars>>

\* for t in range(cfg.steps): the next iteration, or the end of the loop
NextIteration ==
    /\ t' = t + 1
    /\ sim_pc' = IF t + 1 < CreationConfig.steps THEN "observe" ELSE "done"

\* line 262 with the updated r, and line 265
GrowthOpens(res) ==
    /\ edges_left > 0 /\ t % CreationConfig.grow_every = 0 /\ warm = W
    /\ Cardinality(eligible_of(Rbuf, res)) >= 2

\* lines 216-265, no growth check opens
Advance ==
    /\ sim_pc = "advance"
    /\ phases' \in PhaseVectors
    /\ r' \in ResourceVectors
    /\ ~GrowthOpens(r')
    /\ NextIteration
    /\ UNCHANGED <<grow_budget, is_anchor, anchor_age, decay_prob, Rbuf, wptr, warm, edges_left,
                   creation_events, eligible, batch_left, nbrs, ws_i, ws_todo, ws_pc,
                   rw, gateVars, mlVars, evVars, auxVars>>

\* lines 216-267, a growth check opens with a batch drawn in
\* grow_batch_min .. grow_batch_max and cut to the budget left
AdvanceToGrowth ==
    /\ sim_pc = "advance"
    /\ phases' \in PhaseVectors
    /\ r' \in ResourceVectors
    /\ GrowthOpens(r')
    /\ eligible' = eligible_of(Rbuf, r')
    /\ \E batch \in CreationConfig.grow_batch_min..CreationConfig.grow_batch_max :
         batch_left' = Min(batch, edges_left)
    /\ sim_pc' = "grow"
    /\ UNCHANGED <<grow_budget, t, is_anchor, anchor_age, decay_prob, Rbuf, wptr, warm, edges_left,
                   creation_events, nbrs, ws_i, ws_todo, ws_pc, rw, gateVars, mlVars, evVars, auxVars>>

\* the loop  for _ in range(batch)  is over after this iteration
LeaveGrowth(left) ==
    IF left = 0 THEN NextIteration /\ eligible' = {}
    ELSE UNCHANGED <<t, sim_pc, eligible>>

\* lines 269-280: u has a non-neighbour, an edge is born
BirthEdge ==
    /\ sim_pc = "grow" /\ batch_left > 0
    /\ \E u \in eligible :
         /\ pool(u, nbrs) # {}
         /\ \E v \in pool(u, nbrs) :
              /\ nbrs' = add_edge(u, v, nbrs)
              /\ creation_events' = Append(creation_events, <<t, u, v>>)
    /\ edges_left' = edges_left_after(edges_left)
    /\ batch_left' = IF edges_left' = 0 THEN 0 ELSE batch_left - 1
    /\ LeaveGrowth(batch_left')
    /\ UNCHANGED <<grow_budget, phases, r, is_anchor, anchor_age, decay_prob, Rbuf, wptr, warm,
                   ws_i, ws_todo, ws_pc, rw, gateVars, mlVars, evVars, auxVars>>

\* lines 269-273: the pool of u is empty, continue
BirthSkip ==
    /\ sim_pc = "grow" /\ batch_left > 0
    /\ \E u \in eligible : pool(u, nbrs) = {}
    /\ batch_left' = batch_left - 1
    /\ LeaveGrowth(batch_left')
    /\ UNCHANGED <<grow_budget, phases, r, is_anchor, anchor_age, decay_prob, Rbuf, wptr, warm,
                   edges_left, creation_events, nbrs, ws_i, ws_todo, ws_pc, rw,
                   gateVars, mlVars, evVars, auxVars>>

NextSim == Observe \/ Decay \/ Advance \/ AdvanceToGrowth \/ BirthEdge \/ BirthSkip

SpecSim == InitSim /\ [][NextSim]_vars


(***************************************************************************)
(* The event detector: one scan index per step.                            *)
(***************************************************************************)
InitEv ==
    /\ ev_R \in SeqsUpTo(EvRValues, MaxEvT)
    /\ ev_K \in EvKSeries(Len(ev_R))
    /\ ev_anchors \in EvAnchorSeries(Len(ev_R))
    /\ ev_i = 0 /\ events = <<>> /\ ev_pc = "scan"
    /\ rw = NoRewire
    /\ InitGatesIdle /\ InitWSIdle /\ InitMLIdle /\ InitSimIdle
    /\ InitAuxIdle

\* a sustained, guarded crossing: emit one event and resume past the plateau
EvEmit ==
    /\ ev_pc = "scan" /\ ev_i < Len(ev_R)
    /\ is_crossing(ev_R, ev_i) /\ held(ev_R, ev_i) /\ guards(ev_K, ev_anchors, ev_i)
    /\ events' = Append(events, <<ev_i, ev_R[ev_i + 1], ev_K[ev_i + 1]>>)
    /\ ev_i' = plateau_end(ev_R, ev_i)
    /\ UNCHANGED <<ev_R, ev_K, ev_anchors, ev_pc, gateVars, wsVars, mlVars, rw, simVars, auxVars>>

\* no crossing here, or it is not held, or a guard fails: next index
EvPass ==
    /\ ev_pc = "scan" /\ ev_i < Len(ev_R)
    /\ ~(is_crossing(ev_R, ev_i) /\ held(ev_R, ev_i) /\ guards(ev_K, ev_anchors, ev_i))
    /\ ev_i' = ev_i + 1
    /\ UNCHANGED <<ev_R, ev_K, ev_anchors, events, ev_pc, gateVars, wsVars, mlVars,
                   rw, simVars, auxVars>>

EvReturn ==
    /\ ev_pc = "scan" /\ ev_i >= Len(ev_R)
    /\ ev_pc' = "done"
    /\ UNCHANGED <<ev_R, ev_K, ev_anchors, ev_i, events, gateVars, wsVars, mlVars,
                   rw, simVars, auxVars>>

NextEv == EvEmit \/ EvPass \/ EvReturn

SpecEv == InitEv /\ [][NextEv]_vars

SpecGates == InitGates /\ [][NextGates]_vars
SpecWS == InitWS /\ [][NextWS]_vars
SpecML == InitML /\ [][NextML]_vars

\* the crossing at t0 is sustained: R was below the threshold at t0 - 1 and
\* is at/above it from t0 for the full hold window, entirely inside the series
SustainedCrossing(t0) ==
    /\ t0 >= 1 /\ t0 + EventConfig.hold_steps <= Len(ev_R)
    /\ ev_R[t0] < EventConfig.R_event
    /\ \A k \in t0..(t0 + EventConfig.hold_steps - 1) : ev_R[k + 1] >= EventConfig.R_event

GuardsAt(t0) ==
    ev_K[t0 + 1] >= EventConfig.K_min /\ ev_anchors[t0 + 1] >= EventConfig.anchors_min

EventsAt(t0) == { k \in 1..Len(events) : events[k][1] = t0 }

\* C3: when the scan is over, every sustained upward crossing whose guards
\* hold at the crossing index has exactly one event, at that index; every
\* other index (a crossing not held for the full window, a later sample of
\* the same plateau, an unguarded crossing) has none; events are in order.
C3_OneEventPerSustainedCrossing ==
    ev_pc = "done" =>
      /\ \A t0 \in 0..(Len(ev_R) - 1) :
            Cardinality(EventsAt(t0)) =
               (IF SustainedCrossing(t0) /\ GuardsAt(t0) THEN 1 ELSE 0)
      /\ \A k \in 1..Len(events) :
            /\ events[k] = <<events[k][1], ev_R[events[k][1] + 1], ev_K[events[k][1] + 1]>>
            /\ k > 1 => events[k - 1][1] < events[k][1]

\* C3 witness: a plateau longer than the hold window gave one event, and a
\* shorter plateau in the same series gave none
C3_Witness ==
    /\ ev_pc = "done" /\ Len(events) = 1
    /\ plateau_end(ev_R, events[1][1]) - events[1][1] > EventConfig.hold_steps
    /\ \E t0 \in 1..(Len(ev_R) - 2) :
         /\ ev_R[t0] < EventConfig.R_event /\ ev_R[t0 + 1] >= EventConfig.R_event
         /\ ev_R[t0 + 2] < EventConfig.R_event

\* C10: a small-world rewire of edge (i, j) to (i, new) never makes a
\* self-loop and never puts the edge back on the same pair: new # i, new # j.
C10_RewireTargetFresh == rw # NoRewire => (rw.new # rw.i /\ rw.new # rw.j)

\* C10: some edge has been rewired
C10_Witness == rw # NoRewire /\ rw.new \notin {rw.i, rw.j}

Evaluated == "pending" \notin DOMAIN summary

FiveGates(s) == /\ s.gates.coherence_rising
                /\ s.gates.gap_narrowing
                /\ s.gates.anchor_persistence
                /\ s.gates.birth_clustering
                /\ s.gates.sovereignty

OtherFour(s) == <<s.gates.coherence_rising, s.gates.gap_narrowing,
                  s.gates.anchor_persistence, s.gates.birth_clustering>>

\* C1: in every result of evaluate_gates the verdict 'creation' is true
\* exactly when all five gates of the same result are true.
C1_VerdictIsAndOfGates == Evaluated => (summary.creation <=> FiveGates(summary))

\* C1 witness: a result with the verdict true, and the inputs that give it
C1_Witness == Evaluated /\ summary.creation /\ Len(summary.metrics.birth_indices) >= 3

\* C1 second case: a result where exactly the birth-clustering gate fails
C1_WitnessOneGateFails ==
    /\ Evaluated /\ ~summary.creation /\ ~summary.gates.birth_clustering
    /\ OtherFour(summary)[1] /\ OtherFour(summary)[2] /\ OtherFour(summary)[3]
    /\ summary.gates.sovereignty

\* C2: the sovereignty gate is the caller's flag verbatim; re-evaluating the
\* same series and configuration with sovereignty_ok changed from true to
\* false leaves the other four gates unchanged and makes the verdict false.
C2_SovereigntyVerbatim ==
    [][ /\ summary'.gates.sovereignty = sovereignty_ok'
        /\ (Evaluated /\ sovereignty_ok /\ ~sovereignty_ok')
              => (OtherFour(summary') = OtherFour(summary) /\ ~summary'.creation)
      ]_gateVars

\* C2 witness: four gates pass, the caller withheld sovereignty, verdict false
C2_Witness ==
    /\ Evaluated /\ ~sovereignty_ok /\ ~summary.gates.sovereignty
    /\ OtherFour(summary) = <<TRUE, TRUE, TRUE, TRUE>>
    /\ ~summary.creation


\* an undirected edge is in the adjacency
HasEdge(nb, u, v) == v \in nb[u] /\ u \in nb[v]

\* C4: the total number of edges born in a creation run never exceeds the
\* configured budget grow_budget.
C4_BudgetNeverExceeded ==
    /\ Len(creation_events) <= grow_budget
    /\ Cardinality({ {creation_events[k][2], creation_events[k][3]} :
                       k \in 1..Len(creation_events) }) <= grow_budget

\* C4 witness: the whole budget of 2 was spent and a later growth check ran
C4_Witness ==
    /\ grow_budget = 2 /\ Len(creation_events) = 2 /\ edges_left = 0
    /\ t > creation_events[2][1] + CreationConfig.grow_every

\* C5: every edge born joins two distinct nodes that were not neighbours at
\* the moment of the addition, also inside one batch; the step that logs the
\* event (t, u, v) adds exactly the edge u - v.
C5_BornEdgeIsNew ==
    [][ (creation_events' # creation_events \/ nbrs' # nbrs) =>
          /\ Len(creation_events') = Len(creation_events) + 1
          /\ LET e == creation_events'[Len(creation_events')]
                 u == e[2]
                 v == e[3]
             IN  /\ u # v
                 /\ v \notin nbrs[u] /\ u \notin nbrs[v]
                 /\ nbrs' = [nbrs EXCEPT ![u] = @ \cup {v}, ![v] = @ \cup {u}]
      ]_vars

\* C5 witness: two edges born in the same batch (same step t)
C5_Witness ==
    /\ Len(creation_events) = 2
    /\ creation_events[1][1] = creation_events[2][1]
    /\ HasEdge(nbrs, creation_events[1][2], creation_events[1][3])
    /\ HasEdge(nbrs, creation_events[2][2], creation_events[2][3])

\* C6: after the initial topology is built the adjacency changes only in the
\* edge-birth loop and only by gaining edges.
C6_AdjacencyOnlyGrows ==
    [][ /\ EdgeSet(nbrs) \subseteq EdgeSet(nbrs')
        /\ (nbrs' # nbrs => sim_pc = "grow") ]_vars

\* C6 witness: an edge was born and the run went on for a full later step
C6_Witness ==
    /\ Len(creation_events) >= 1
    /\ t > creation_events[1][1] + 1
    /\ HasEdge(nbrs, creation_events[1][2], creation_events[1][3])
    /\ \A i \in SimNodes : RingLattice(SimN, CreationConfig.k_ring)[i] \subseteq nbrs[i]

\* C7: no node is an anchor before the crystallization window is full, i.e.
\* before W steps of local coherence have been recorded.
C7_NoAnchorBeforeWindowFull ==
    (\E i \in SimNodes : is_anchor[i]) => (warm = W /\ t >= W - 1)

\* C7 witness: a node is promoted at the very step the window fills
C7_Witness ==
    /\ t = W - 1 /\ sim_pc = "decay"
    /\ \E i \in SimNodes : is_anchor[i] /\ anchor_age[i] = 0

\* C8: once the window is full the promotion check runs at every step: every
\* non-anchor node whose windowed mean and resource reach their thresholds
\* becomes an anchor with age 0, also one that was promoted and dropped before.
C8_PromotionEveryStep ==
    [][ (sim_pc = "observe" /\ warm' = W) =>
          \A i \in SimNodes :
             ( /\ ~is_anchor[i]
               /\ WindowMeanGE(Rbuf', i, CreationConfig.thresh_R_local)
               /\ r[i] >= CreationConfig.thresh_resource )
             => (is_anchor'[i] /\ anchor_age'[i] = 0)
      ]_vars

\* C8 witness: a node that was a starved anchor in the previous step's decay
\* pass, and dropped there, has just been promoted again (age 0), at a step
\* after the one that filled the window
C8_Witness ==
    /\ sim_pc = "decay" /\ t > W
    /\ \E i \in SimNodes :
         is_anchor[i] /\ anchor_age[i] = 0 /\ decay_prob[i] # ZeroProb

\* C9: in a decay pass an anchor whose resource is at or above the starvation
\* threshold gets drop probability 0 and stays an anchor; a starved anchor
\* gets 1 - 0.5^(age/half_life), which is strictly greater than the
\* probability it had in the previous pass, when it was starved there too.
C9_DropProbability ==
    [][ /\ \A i \in SimNodes :
             (is_anchor[i] /\ ~is_anchor'[i])
                => (sim_pc = "decay" /\ r[i] < CreationConfig.starve_threshold)
        /\ sim_pc = "decay" =>
             \A i \in SimNodes :
               /\ (is_anchor[i] /\ r[i] >= CreationConfig.starve_threshold)
                    => (decay_prob'[i] = ZeroProb /\ is_anchor'[i])
               /\ (is_anchor[i] /\ r[i] < CreationConfig.starve_threshold)
                    => /\ decay_prob'[i] =
                            [num |-> 1, den |-> Pow(2, anchor_age[i] + 1),
                             root |-> Max(1, CreationConfig.anchor_half_life)]
                       /\ ProbLess(ZeroProb, decay_prob'[i])
                       /\ (decay_prob[i] # ZeroProb
                             => ProbLess(decay_prob[i], decay_prob'[i]))
      ]_vars

\* C9 witness: one anchor has been starved in two passes in a row and
\* survived both, next to an anchor that is not starved
C9_Witness ==
    /\ sim_pc = "advance"
    /\ \E i, j \in SimNodes :
         /\ is_anchor[i] /\ r[i] < CreationConfig.starve_threshold
         /\ anchor_age[i] >= 3 /\ decay_prob[i] # ZeroProb
         /\ is_anchor[j] /\ r[j] >= CreationConfig.starve_threshold
         /\ decay_prob[j] = ZeroProb

(***************************************************************************)
(* Topology builders of multi_scale_kuramoto, with the ring lattice of     *)
(* creation.watts_strogatz.  A matrix is a function from index pairs to    *)
(* weights in tenths (1.0 is 10).                                          *)
(***************************************************************************)
MaxSide == 3        \* largest rows / cols of a grid descriptor
MaxRing == 6        \* largest node count of a ring descriptor
MaxLayer == 3       \* largest layer size of a nested-spheres descriptor

One == 10
inter_strength == 2     \* adjacency_nested_spheres default, 0.2

\* np.zeros((N, N)) with the given cells assigned 1.0
OnesAt(n, cells) ==
    [c \in NodeSet(n) \X NodeSet(n) |-> IF c \in cells THEN One ELSE 0]

\* adjacency_grid: the cells set to 1.0
grid_cells(rows, cols, diagonal) ==
    LET idx(rr, cc) == rr * cols + cc
        steps == {<<1, 0>>, <<-1, 0>>, <<0, 1>>, <<0, -1>>}
                   \cup (IF diagonal THEN {<<1, 1>>, <<1, -1>>, <<-1, 1>>, <<-1, -1>>}
                                     ELSE {})
        inside(rr, cc) == 0 <= rr /\ rr < rows /\ 0 <= cc /\ cc < cols
        moves == { m \in ((0..(rows - 1)) \X (0..(cols - 1))) \X steps :
                     inside(m[1][1] + m[2][1], m[1][2] + m[2][2]) }
    IN  UNION { { <<idx(m[1][1], m[1][2]), idx(m[1][1] + m[2][1], m[1][2] + m[2][2])>>,
                  <<idx(m[1][1] + m[2][1], m[1][2] + m[2][2]), idx(m[1][1], m[1][2])>> } :
                  m \in moves }

adjacency_grid(rows, cols, diagonal) ==
    OnesAt(rows * cols, grid_cells(rows, cols, diagonal))

\* adjacency_circular: j1 = (i + 1) % N, j2 = (i - 1 + N) % N
circular_cells(n) ==
    UNION { { <<i, (i + 1) % n>>, <<(i + 1) % n, i>>,
              <<i, (i - 1 + n) % n>>, <<(i - 1 + n) % n, i>> } : i \in NodeSet(n) }

adjacency_circular(n) == OnesAt(n, circular_cells(n))

\* offset of layer k (1-based) in the block matrix
layer_offset(layer_sizes, k) == SeqSum(SubSeq(layer_sizes, 1, k - 1))

\* the ring inside layer k: A[offset + i, offset + j1] = A[offset + j1, offset + i] = 1
layer_ring(layer_sizes, k) ==
    LET off == layer_offset(layer_sizes, k)
        size == layer_sizes[k]
    IN  UNION { { <<off + i, off + ((i + 1) % size)>>,
                  <<off + ((i + 1) % size), off + i>> } : i \in NodeSet(size) }

\* radial links between the first nodes of consecutive layers
radial_cells(layer_sizes) ==
    UNION { { <<layer_offset(layer_sizes, k), layer_offset(layer_sizes, k + 1)>>,
              <<layer_offset(layer_sizes, k + 1), layer_offset(layer_sizes, k)>> } :
              k \in 1..(Len(layer_sizes) - 1) }

\* adjacency_nested_spheres: the rings are written first, the radial links last
adjacency_nested_spheres(layer_sizes, strength) ==
    LET n == SeqSum(layer_sizes)
        ring == UNION { layer_ring(layer_sizes, k) : k \in 1..Len(layer_sizes) }
    IN  [c \in NodeSet(n) \X NodeSet(n) |->
            IF c \in radial_cells(layer_sizes) THEN strength
            ELSE IF c \in ring THEN One ELSE 0]

\* adjacency_flower_of_life for rings <= 1: node 0 is the centre, nodes 1..6
\* are at radius 1 and angles 60 * (j - 1) degrees; 2 * cos(60 * d degrees)
TwoCos60 == <<2, 1, -1, -2, -1, 1>>

\* squared distance between two nodes of the lattice
flower_dist2(i, j) ==
    IF i = j THEN 0
    ELSE IF i = 0 \/ j = 0 THEN 1
    ELSE 2 - TwoCos60[((j - i) % 6) + 1]

\* d <= 1.05 + 1e-9, compared on the squares: 400 * d^2 <= 441
flower_near(i, j) == 400 * flower_dist2(i, j) <= 441

adjacency_flower_of_life(rings) ==
    LET n == 1 + 6 * rings
        close == { q \in NodeSet(n) \X NodeSet(n) :
                     q[1] < q[2] /\ flower_near(q[1], q[2]) }
    IN  OnesAt(n, UNION { { <<q[1], q[2]>>, <<q[2], q[1]>> } : q \in close })

\* the relation returned by creation.watts_strogatz as a 0/1 matrix
relation_matrix(n, nb) ==
    [c \in NodeSet(n) \X NodeSet(n) |-> IF c[2] \in nb[c[1]] THEN One ELSE 0]

\* creation.watts_strogatz with at most one edge rewired
small_world_results(n, k) ==
    LET ring == RingLattice(n, k)
    IN  {ring} \cup
        { rewire(ring, e[1], e[2], e[3]) :
            e \in { f \in NodeSet(n) \X NodeSet(n) \X NodeSet(n) :
                      /\ f[2] \in ring[f[1]] /\ f[2] > f[1]
                      /\ f[3] \in choices(ring, n, f[1]) } }

\* the shape descriptors given to the builders
GridGeoms == [name : {"grid"}, rows : 1..MaxSide, cols : 1..MaxSide, diagonal : BOOLEAN]
CircularGeoms == [name : {"circular"}, nodes : 1..MaxRing]
NestedGeoms ==
    [name : {"nested_spheres"},
     layer_sizes : { <<a>> : a \in 1..MaxLayer }
                     \cup { <<a, b>> : a \in 1..MaxLayer, b \in 1..MaxLayer }]
FlowerGeoms == [name : {"flower_of_life"}, rings : {0, 1}]
SmallWorldGeoms == [name : {"small_world"}, nodes : 1..MaxRing, k_ring : RingDegrees]

InitTopo ==
    /\ geom \in GridGeoms \cup CircularGeoms \cup NestedGeoms \cup FlowerGeoms
                  \cup SmallWorldGeoms
    /\ adj = <<>> /\ topo_pc = "build"
    /\ InitTopoOthers

TopoFrame == UNCHANGED <<geom, TopoOthers>>

BuildGrid ==
    /\ topo_pc = "build" /\ geom.name = "grid"
    /\ adj' = adjacency_grid(geom.rows, geom.cols, geom.diagonal)
    /\ topo_pc' = "done" /\ TopoFrame

BuildCircular ==
    /\ topo_pc = "build" /\ geom.name = "circular"
    /\ adj' = adjacency_circular(geom.nodes)
    /\ topo_pc' = "done" /\ TopoFrame

BuildNested ==
    /\ topo_pc = "build" /\ geom.name = "nested_spheres"
    /\ adj' = adjacency_nested_spheres(geom.layer_sizes, inter_strength)
    /\ topo_pc' = "done" /\ TopoFrame

BuildFlower ==
    /\ topo_pc = "build" /\ geom.name = "flower_of_life"
    /\ adj' = adjacency_flower_of_life(geom.rings)
    /\ topo_pc' = "done" /\ TopoFrame

BuildSmallWorld ==
    /\ topo_pc = "build" /\ geom.name = "small_world"
    /\ \E nb \in small_world_results(geom.nodes, geom.k_ring) :
          adj' = relation_matrix(geom.nodes, nb)
    /\ topo_pc' = "done" /\ TopoFrame

NextTopo == BuildGrid \/ BuildCircular \/ BuildNested \/ BuildFlower \/ BuildSmallWorld

SpecTopo == InitTopo /\ [][NextTopo]_vars

\* the nodes of the adjacency returned
AdjNodes == { c[1] : c \in DOMAIN adj }

\* C11: the adjacency a topology builder returns is symmetric, nonnegative
\* and has a zero diagonal, for every shape descriptor and every size.
C11_AdjacencyWellFormed ==
    topo_pc = "done" =>
        \A i \in AdjNodes : /\ adj[<<i, i>>] = 0
                            /\ \A j \in AdjNodes : adj[<<i, j>>] = adj[<<j, i>>]
                                                   /\ adj[<<i, j>>] >= 0

\* C11: a built adjacency with at least three nodes that is well formed
C11_Witness ==
    /\ topo_pc = "done" /\ Cardinality(AdjNodes) >= 3
    /\ \E c \in DOMAIN adj : adj[c] > 0
    /\ \A i \in AdjNodes : adj[<<i, i>>] = 0

(***************************************************************************)
(* environment_drivers: SineDriver.phase_at and CompositeDriver.phase_at.  *)
(* Angles are in units of pi/4 (a full turn is 8).  freq is the advance    *)
(* per step, 2 pi * freq_hz * dt * time_scale, in the same units.  An      *)
(* angle strictly inside a quadrant is represented by the odd unit of      *)
(* that quadrant.                                                          *)
(***************************************************************************)
MaxDrvT == 4        \* largest t_index given to phase_at
TWOPI == 8

\* SineDriver.phase_at: (TWOPI * freq_hz * t + phase0) % TWOPI
sine_phase_at(d, t_index) == (d.freq * t_index + d.phase0) % TWOPI

\* np.angle of x + iy, in (-pi, pi]
np_angle(x, y) ==
    IF y = 0 THEN (IF x >= 0 THEN 0 ELSE 4)
    ELSE IF x = 0 THEN (IF y > 0 THEN 2 ELSE -2)
    ELSE IF y > 0 THEN (IF x > 0 THEN 1 ELSE 3)
    ELSE (IF x > 0 THEN -1 ELSE -3)

\* Z = sum of d.amplitude * exp(1j * phi) over the components, whose phases
\* are multiples of pi/2 here
phasor_sum(drivers, t_index) ==
    LET phi(k) == sine_phase_at(drivers[k], t_index)
    IN  << SeqSum([k \in 1..Len(drivers) |-> drivers[k].amplitude * DirX(phi(k) \div 2)]),
           SeqSum([k \in 1..Len(drivers) |-> drivers[k].amplitude * DirY(phi(k) \div 2)]) >>

\* CompositeDriver.phase_at: 0.0 when |Z| < 1e-12, else np.angle(Z)
composite_phase_at(drivers, t_index) ==
    LET Z == phasor_sum(drivers, t_index)
    IN  IF Z = <<0, 0>> THEN 0 ELSE np_angle(Z[1], Z[2])

\* single drivers: any frequency and phase offset; components of a
\* composite: phases on the axes
SineDrivers == [freq : {0, 1, 3}, amplitude : {1}, phase0 : {-3, 0, 2}]
Components == [freq : {0, 2}, amplitude : {1, 2}, phase0 : {-2, 0, 4}]
CompositeDrivers == { <<a>> : a \in Components } \cup (Components \X Components)

InitDrv ==
    /\ drv \in [kind : {"sine"}, drivers : { <<d>> : d \in SineDrivers }]
                \cup [kind : {"composite"}, drivers : CompositeDrivers]
    /\ drv_t = 0 /\ drv_phi = 0 /\ drv_pc = "idle"
    /\ InitDrvOthers

SinePhaseAt(t_index) ==
    /\ drv.kind = "sine"
    /\ drv_t' = t_index
    /\ drv_phi' = sine_phase_at(drv.drivers[1], t_index)
    /\ drv_pc' = "called"
    /\ UNCHANGED <<drv, DrvOthers>>

CompositePhaseAt(t_index) ==
    /\ drv.kind = "composite"
    /\ drv_t' = t_index
    /\ drv_phi' = composite_phase_at(drv.drivers, t_index)
    /\ drv_pc' = "called"
    /\ UNCHANGED <<drv, DrvOthers>>

NextDrv == \E t_index \in 0..MaxDrvT : SinePhaseAt(t_index) \/ CompositePhaseAt(t_index)

SpecDrv == InitDrv /\ [][NextDrv]_vars

\* C12: phase_at(step) returns a wrapped angle in [0, 2 pi), for a single
\* sinusoidal driver and for a composite driver alike.
C12_PhaseWrapped == drv_pc = "called" => (0 <= drv_phi /\ drv_phi < TWOPI)

\* C12: a composite driver has returned an angle of the upper half plane
C12_Witness ==
    /\ drv_pc = "called" /\ drv.kind = "composite" /\ Len(drv.drivers) = 2
    /\ drv_phi > 0 /\ drv_phi < TWOPI

\* the single sinusoidal driver alone does return a wrapped angle
SinePhaseWrapped ==
    (drv_pc = "called" /\ drv.kind = "sine") => (0 <= drv_phi /\ drv_phi < TWOPI)

(***************************************************************************)
(* multilayer_resonance.euler_step_multilayer, two layers of two nodes.    *)
(* Phases are on the quarter-turn grid (even units of pi/4), so that every *)
(* sine the step takes is 0, +-1 or +-sqrt(2)/2: a rate is a pair <<p, q>> *)
(* standing for p + q * sqrt(2)/2.  The loops may visit the layers and the *)
(* nodes in any order; range(L), range(N) is one of them.                  *)
(***************************************************************************)
StepLayers == {0, 1}
StepNodes == {0, 1}

PAdd(a, b) == <<a[1] + b[1], a[2] + b[2]>>
PScale(k, a) == <<k * a[1], k * a[2]>>

\* np.sin of an angle on the pi/4 grid
sin_grid(k) ==
    CASE k % 8 = 0 -> <<0, 0>>  [] k % 8 = 1 -> <<0, 1>>  [] k % 8 = 2 -> <<1, 0>>
      [] k % 8 = 3 -> <<0, 1>>  [] k % 8 = 4 -> <<0, 0>>  [] k % 8 = 5 -> <<0, -1>>
      [] k % 8 = 6 -> <<-1, 0>> [] OTHER -> <<0, -1>>

RECURSIVE PSum(_, _)
\* sum of f[x] over the set S of pairs' indices
PSum(f, S) ==
    IF S = {} THEN <<0, 0>>
    ELSE LET x == CHOOSE y \in S : TRUE IN PAdd(f[x], PSum(f, S \ {x}))

\* line 81: np.sum(A[i] * np.sin(theta[l] - theta[l, i])) / deg[i], with
\* deg clipped at 1e-9 (an isolated node has a zero sum)
layer_coupling(thl, Al, i) ==
    LET nb == { j \in StepNodes : <<i, j>> \in Al }
        total == PSum([j \in StepNodes |-> sin_grid(thl[j] - thl[i])], nb)
        deg == Cardinality(nb)
    IN  IF deg = 0 THEN <<0, 0>> ELSE <<total[1] \div deg, total[2] \div deg>>

\* line 86: np.angle(np.mean(np.exp(1j * theta[:, i])))
mean_angle(th, i) ==
    np_angle(SetSum([l \in StepLayers |-> DirX(th[l][i] \div 2)], StepLayers),
             SetSum([l \in StepLayers |-> DirY(th[l][i] \div 2)], StepLayers))

\* line 88: gamma * np.sin(mean_i - theta[l, i])
interlayer_pull(th, gamma, l, i) == PScale(gamma, sin_grid(mean_angle(th, i) - th[l][i]))

\* mutant: the layers already visited are read with their phases advanced
theta_read_updated(th, dth, visited) ==
    [l \in StepLayers |->
        IF l \in visited THEN [i \in StepNodes |-> (th[l][i] + 2 * dth[l][i][1]) % TWOPI]
        ELSE th[l]]

\* the phases the loops read: theta is not written before the return
theta_read(th, dth, visited) == th

ZeroRates == [l \in StepLayers |-> [i \in StepNodes |-> <<0, 0>>]]
ZeroNoise == [l \in StepLayers |-> [i \in StepNodes |-> 0]]
NoiseDraws == { ZeroNoise, [l \in StepLayers |-> [i \in StepNodes |-> IF l = i THEN 1 ELSE -1]] }

FullLayer == { <<0, 1>>, <<1, 0>> }
StepInputs ==
    [ layers : { [l \in StepLayers |-> FullLayer],
                 [l \in StepLayers |-> IF l = 0 THEN FullLayer ELSE {}] },
      omega : { [i \in StepNodes |-> 0], [i \in StepNodes |-> i] },
      K_node : { [i \in StepNodes |-> 1] },
      gamma : {1},
      noisy : BOOLEAN ]

InitStep ==
    /\ ms_in \in StepInputs
    /\ ms_theta \in [StepLayers -> [StepNodes -> {0, 2, 4, 6}]]
    /\ ms_dtheta = ZeroRates
    /\ ms_layers_todo = StepLayers /\ ms_nodes_todo = StepNodes
    /\ ms_noise = ZeroNoise /\ ms_out = <<>> /\ ms_pc = "coupling"
    /\ InitStepOthers

\* lines 77-82: one layer of the coupling loop
LayerCoupling ==
    /\ ms_pc = "coupling"
    /\ \E l \in ms_layers_todo :
         LET th == theta_read(ms_theta, ms_dtheta, StepLayers \ ms_layers_todo)
         IN  /\ ms_dtheta' = [ms_dtheta EXCEPT ![l] =
                   [i \in StepNodes |->
                      PAdd(<<ms_in.omega[i], 0>>,
                           PScale(ms_in.K_node[i],
                                  layer_coupling(th[l], ms_in.layers[l], i)))]]
             /\ ms_layers_todo' = ms_layers_todo \ {l}
             /\ ms_pc' = IF ms_layers_todo = {l} THEN "interlayer" ELSE "coupling"
    /\ UNCHANGED <<ms_in, ms_theta, ms_nodes_todo, ms_noise, ms_out, StepOthers>>

\* lines 85-88: one node of the interlayer loop
InterlayerPull ==
    /\ ms_pc = "interlayer"
    /\ \E i \in ms_nodes_todo :
         LET th == theta_read(ms_theta, ms_dtheta, StepLayers)
         IN  /\ ms_dtheta' = [l \in StepLayers |->
                   [ms_dtheta[l] EXCEPT ![i] =
                      PAdd(@, interlayer_pull(th, ms_in.gamma, l, i))]]
             /\ ms_nodes_todo' = ms_nodes_todo \ {i}
             /\ ms_pc' = IF ms_nodes_todo = {i} THEN "noise" ELSE "interlayer"
    /\ UNCHANGED <<ms_in, ms_theta, ms_layers_todo, ms_noise, ms_out, StepOthers>>

\* lines 90-93: the noise, and the phases returned
StepReturn ==
    /\ ms_pc = "noise"
    /\ ms_noise' \in (IF ms_in.noisy THEN NoiseDraws ELSE {ZeroNoise})
    /\ ms_out' = [l \in StepLayers |-> [i \in StepNodes |->
                    [base |-> ms_theta[l][i],
                     d |-> PAdd(ms_dtheta[l][i], <<ms_noise'[l][i], 0>>)]]]
    /\ ms_pc' = "done"
    /\ UNCHANGED <<ms_in, ms_theta, ms_dtheta, ms_layers_todo, ms_nodes_todo, StepOthers>>

NextStep == LayerCoupling \/ InterlayerPull \/ StepReturn

SpecStep == InitStep /\ [][NextStep]_vars

\* the step with every term taken from the phases before the step
SynchronousStep(th, in, noise) ==
    [l \in StepLayers |-> [i \in StepNodes |->
        [base |-> th[l][i],
         d |-> PAdd(PAdd(<<in.omega[i], 0>>,
                         PScale(in.K_node[i], layer_coupling(th[l], in.layers[l], i))),
                    PAdd(interlayer_pull(th, in.gamma, l, i), <<noise[l][i], 0>>))]]]

\* C13: in one multi-layer step every term, the inter-layer pull included,
\* is computed from the phases all layers had before the step, whatever the
\* order in which the layers and nodes are visited.
C13_PullFromPreStepPhases ==
    ms_pc = "done" => ms_out = SynchronousStep(ms_theta, ms_in, ms_noise)

\* C13: a step has returned in which the two layers disagreed on a node, so
\* that the pull was not zero, and the in-layer coupling moved the phases too
C13_Witness ==
    /\ ms_pc = "done"
    /\ \E i \in StepNodes :
         /\ ms_theta[0][i] # ms_theta[1][i]
         /\ interlayer_pull(ms_theta, ms_in.gamma, 0, i) # <<0, 0>>
         /\ layer_coupling(ms_theta[0], ms_in.layers[0], i) # <<0, 0>>

(***************************************************************************)
(* Windowed metrics: resonance_algorithms.phase_entropy_windowed and       *)
(* phase_diffusion_windowed on one phase series, and the rolling anchor    *)
(* fraction of coherence_metrics.compute_timeseries.  An entry of a        *)
(* returned array is NaN or [n, val]: val the value, n the number of       *)
(* recorded samples it was computed from.  Index t of an array is element  *)
(* t + 1 of the sequence.                                                  *)
(***************************************************************************)
MaxWinT == 6        \* longest series given to a windowed metric

NaN == [nan |-> TRUE]
Value(n, val) == [nan |-> FALSE, n |-> n, val |-> val]

WinValues == {0, 2}
WinLengths == {1, 2, 4, 5}

\* X[a:b]
Slice(X, a, b) == SubSeq(X, a + 1, b)

\* counts per value: what a histogram or a variance of the segment rests on
Hist(seg) == [v \in -3..4 |-> Cardinality({ k \in 1..Len(seg) : seg[k] = v })]

\* _angle_diff: np.angle(np.exp(1j * (a - b))), in (-pi, pi]
angle_diff(a, b) == ((a - b + 3) % TWOPI) - 3

\* phase_entropy_windowed: W = max(4, win); out[t] for t in range(W, T)
phase_entropy_windowed(X, win) ==
    LET WW == Max(4, win)
    IN  [k \in 1..Len(X) |->
           IF k - 1 >= WW THEN Value(WW, Hist(Slice(X, k - 1 - WW, k - 1))) ELSE NaN]

\* phase_diffusion_windowed: dphi has T - 1 rows; W = max(2, win);
\* out[t] for t in range(W, T - 1)
phase_diffusion_windowed(X, win) ==
    LET dphi == [k \in 1..(Len(X) - 1) |-> angle_diff(X[k + 1], X[k])]
        WW == Max(2, win)
    IN  [k \in 1..Len(dphi) |->
           IF k - 1 >= WW /\ k - 1 < Len(X) - 1
           THEN Value(WW, Hist(Slice(dphi, k - 1 - WW, k - 1))) ELSE NaN]

\* compute_timeseries, line 109-110: inst_lock of one row
inst_lock(row) ==
    [n \in 1..Len(row) |-> WithinEps(row[n], MeanVec(row), GateConfig.anchor_eps_cos2)]

\* number of True entries of a boolean row
CountTrue(row) == Cardinality({ n \in 1..Len(row) : row[n] })

InitWin ==
    /\ \/ /\ win_in \in [kind : {"entropy", "diffusion"},
                         X : UNION { [1..n -> WinValues] : n \in 1..MaxWinT },
                         win : WinLengths]
          /\ lock_buffer = <<>>
       \/ /\ win_in \in [kind : {"anchor"},
                         X : UNION { [1..n -> HistRows] : n \in 1..(MaxWinT - 2) },
                         win : {1, 2, 3}]
          \* line 101: lock_buffer = zeros((anchor_window, N), bool)
          /\ lock_buffer = [k \in 0..(win_in.win - 1) |-> <<FALSE, FALSE>>]
    /\ win_out = <<>> /\ buf_i = 0 /\ win_t = 0 /\ win_pc = "run"
    /\ InitWinOthers

EntropyWindowed ==
    /\ win_pc = "run" /\ win_in.kind = "entropy"
    /\ win_out' = phase_entropy_windowed(win_in.X, win_in.win)
    /\ win_pc' = "done"
    /\ UNCHANGED <<win_in, lock_buffer, buf_i, win_t, WinOthers>>

DiffusionWindowed ==
    /\ win_pc = "run" /\ win_in.kind = "diffusion"
    /\ win_out' = phase_diffusion_windowed(win_in.X, win_in.win)
    /\ win_pc' = "done"
    /\ UNCHANGED <<win_in, lock_buffer, buf_i, win_t, WinOthers>>

\* compute_timeseries, lines 104-119: one iteration of the loop
AnchorStep ==
    /\ win_pc = "run" /\ win_in.kind = "anchor" /\ win_t < Len(win_in.X)
    /\ LET lock == inst_lock(win_in.X[win_t + 1])
           buf == [lock_buffer EXCEPT ![buf_i] = lock]
           locked_all == [n \in 1..Len(lock) |-> \A k \in DOMAIN buf : buf[k][n]]
       IN  IF win_in.win = 1
           THEN /\ win_out' = Append(win_out, Value(1, CountTrue(lock)))
                /\ UNCHANGED <<lock_buffer, buf_i>>
           ELSE /\ lock_buffer' = buf
                /\ buf_i' = (buf_i + 1) % win_in.win
                /\ win_out' = Append(win_out,
                                     Value(Min(win_t + 1, win_in.win), CountTrue(locked_all)))
    /\ win_t' = win_t + 1
    /\ UNCHANGED <<win_in, win_pc, WinOthers>>

AnchorReturn ==
    /\ win_pc = "run" /\ win_in.kind = "anchor" /\ win_t = Len(win_in.X)
    /\ win_pc' = "done"
    /\ UNCHANGED <<win_in, win_out, lock_buffer, buf_i, win_t, WinOthers>>

NextWin == EntropyWindowed \/ DiffusionWindowed \/ AnchorStep \/ AnchorReturn

SpecWin == InitWin /\ [][NextWin]_vars

\* the window a metric slides: max(4, win), max(2, win), anchor_window
WindowOf(in) ==
    CASE in.kind = "entropy" -> Max(4, in.win)
      [] in.kind = "diffusion" -> Max(2, in.win)
      [] OTHER -> in.win

\* C14: a windowed metric returns NaN at every index before the first full
\* window, and every value it reports is computed from a full window.
C14_NaNBeforeFullWindow ==
    win_pc = "done" =>
        \A k \in 1..Len(win_out) :
            /\ k < WindowOf(win_in) => win_out[k].nan
            /\ ~win_out[k].nan => win_out[k].n = WindowOf(win_in)

\* C14: a windowed entropy with NaN entries followed by reported values
C14_Witness ==
    /\ win_pc = "done" /\ win_in.kind = "entropy"
    /\ win_out[1].nan /\ ~win_out[Len(win_out)].nan

\* the two sliding metrics of resonance_algorithms alone do report NaN
\* before the first full window and full-window values after it
SlidingMetricsNaN ==
    (win_pc = "done" /\ win_in.kind # "anchor") =>
        \A k \in 1..Len(win_out) :
            /\ k < WindowOf(win_in) => win_out[k].nan
            /\ ~win_out[k].nan => win_out[k].n = WindowOf(win_in)

(***************************************************************************)
(* Sources of randomness.  Two runs of one simulator are started with the  *)
(* same configuration and seed; each run owns the generator it seeds       *)
(* (np.random.default_rng(seed)), while the state of the process-wide      *)
(* np.random generator is whatever the process left it in.  A run's        *)
(* output is decided by the values it draws.                               *)
(***************************************************************************)
RunSteps == 2       \* steps of each run

Runs == {1, 2}
DrawValues == 0..2

\* the k-th value of the generator seeded with seed
seeded_draw(seed, k) == (2 * seed + k) % 3

\* a value of the process-wide generator in state g, and its next state
global_draw(g) == g
global_next(g) == (g + 1) % 3

\* the generator the step's noise comes from:
\*   community_kuramoto.euler_step, line 41: np.random.normal
\*   multilayer_resonance.euler_step_multilayer, line 91: np.random.normal
\*   multi_scale_kuramoto.step_kuramoto, line 221: rng.normal, rng passed
\*     by the run loop (line 413)
\*   creation.simulate, line 252: rng.standard_normal
noise_source(kind) ==
    IF kind \in {"community_kuramoto", "multilayer_resonance"} THEN "global" ELSE "run"

InitRun ==
    /\ rr_cfg \in [kind : {"community_kuramoto", "multilayer_resonance",
                           "multi_scale_kuramoto", "creation"},
                   seed : {0, 1}, noisy : BOOLEAN]
    /\ rr_glob \in [Runs -> DrawValues]
    /\ rr_pos = [a \in Runs |-> 0]
    /\ rr_t = [a \in Runs |-> -1]
    /\ rr_out = [a \in Runs |-> <<>>]
    /\ InitRunOthers

\* rng = np.random.default_rng(seed); graph, omega, theta drawn from rng
RunSetup(a) ==
    /\ rr_t[a] = -1
    /\ rr_out' = [rr_out EXCEPT ![a] = <<seeded_draw(rr_cfg.seed, 0),
                                         seeded_draw(rr_cfg.seed, 1)>>]
    /\ rr_pos' = [rr_pos EXCEPT ![a] = 2]
    /\ rr_t' = [rr_t EXCEPT ![a] = 0]
    /\ UNCHANGED <<rr_cfg, rr_glob, RunOthers>>

\* one step without noise (noise_std = 0): nothing is drawn
RunStepQuiet(a) ==
    /\ rr_t[a] >= 0 /\ rr_t[a] < RunSteps /\ ~rr_cfg.noisy
    /\ rr_t' = [rr_t EXCEPT ![a] = @ + 1]
    /\ UNCHANGED <<rr_cfg, rr_glob, rr_pos, rr_out, RunOthers>>

\* one step whose noise comes from the run's generator
RunStepSeeded(a) ==
    /\ rr_t[a] >= 0 /\ rr_t[a] < RunSteps /\ rr_cfg.noisy
    /\ noise_source(rr_cfg.kind) = "run"
    /\ rr_out' = [rr_out EXCEPT ![a] = Append(@, seeded_draw(rr_cfg.seed, rr_pos[a]))]
    /\ rr_pos' = [rr_pos EXCEPT ![a] = @ + 1]
    /\ rr_t' = [rr_t EXCEPT ![a] = @ + 1]
    /\ UNCHANGED <<rr_cfg, rr_glob, RunOthers>>

\* one step whose noise comes from the process-wide generator
RunStepGlobal(a) ==
    /\ rr_t[a] >= 0 /\ rr_t[a] < RunSteps /\ rr_cfg.noisy
    /\ noise_source(rr_cfg.kind) = "global"
    /\ rr_out' = [rr_out EXCEPT ![a] = Append(@, global_draw(rr_glob[a]))]
    /\ rr_glob' = [rr_glob EXCEPT ![a] = global_next(@)]
    /\ rr_t' = [rr_t EXCEPT ![a] = @ + 1]
    /\ UNCHANGED <<rr_cfg, rr_pos, RunOthers>>

NextRun ==
    \E a \in Runs : RunSetup(a) \/ RunStepQuiet(a) \/ RunStepSeeded(a) \/ RunStepGlobal(a)

SpecRun == InitRun /\ [][NextRun]_vars

RunsOver == \A a \in Runs : rr_t[a] = RunSteps

\* C15: every random draw of a run comes from the run's seeded generator and
\* none from the process-wide one, so two runs with the same configuration
\* and seed produce identical outputs.
C15_SameSeedSameOutput ==
    /\ RunsOver => rr_out[1] = rr_out[2]
    /\ \A a \in Runs : rr_pos[a] = Len(rr_out[a])

\* C15: two noisy runs that drew everything from their own generators ended
\* with the same output although the process-wide generators differed
C15_Witness ==
    /\ RunsOver /\ rr_cfg.noisy /\ rr_glob[1] # rr_glob[2]
    /\ rr_out[1] = rr_out[2] /\ Len(rr_out[1]) = 2 + RunSteps

(***************************************************************************)
(* Sizes of the supplied inputs.  A preset names a number of oscillators   *)
(* and may carry an adjacency matrix (or a geometry that fixes one), a     *)
(* list of group labels and a list of natural frequencies; Absent stands   *)
(* for a key the preset does not have.  The outcome of the set-up is       *)
(* either a raised error or the sizes the run is started with.             *)
(***************************************************************************)
MaxShapeN == 4      \* largest supplied size

Absent == -1
ShapeSizes == 0..MaxShapeN
OptSizes == ShapeSizes \cup {Absent}

Max2(a, b) == IF a >= b THEN a ELSE b

\* int(math.sqrt(n))
isqrt(n) == CHOOSE s \in 0..n : s * s <= n /\ (s + 1) * (s + 1) > n

Raised == [raised |-> TRUE]
RanWith(n, a) == [raised |-> FALSE, N |-> n, adj |-> a]

\* multi_scale_kuramoto.build_from_basic: A from the geometry, N from
\* num_oscillators (default A.shape[0]); on a mismatch A is replaced by a
\* grid of int(sqrt(N)) or 1 rows and max(1, N // max(1, int(sqrt(N)))) cols
build_from_basic(in) ==
    LET A0 == in.adj
        N == IF in.N = Absent THEN A0 ELSE in.N
        rows == IF isqrt(N) = 0 THEN 1 ELSE isqrt(N)
        cols == Max2(1, N \div Max2(1, isqrt(N)))
    IN  IF A0 # N THEN RanWith(N, rows * cols) ELSE RanWith(N, A0)

\* community_kuramoto.simulate: a supplied adjacency overrides N; groups,
\* omega are checked against the resulting N
community_simulate(in) ==
    LET N0 == IF in.N = Absent THEN MaxShapeN ELSE in.N
        N == IF in.adj # Absent THEN in.adj ELSE N0
    IN  IF in.groups # Absent /\ in.groups # N THEN Raised
        ELSE IF in.omega # Absent /\ in.omega # N THEN Raised
        ELSE RanWith(N, N)

\* multilayer_resonance.simulate: groups, then every supplied layer, are
\* checked against N
multilayer_simulate(in) ==
    LET N == IF in.N = Absent THEN MaxShapeN ELSE in.N
    IN  IF in.groups # Absent /\ in.groups # N THEN Raised
        ELSE IF in.adj # Absent /\ in.adj # N THEN Raised
        ELSE RanWith(N, N)

ShapeInputs ==
    { in \in [fn : {"build_from_basic", "community_kuramoto", "multilayer_resonance"},
              N : OptSizes, adj : OptSizes, groups : OptSizes, omega : OptSizes] :
        /\ in.fn = "build_from_basic" =>
              in.adj # Absent /\ in.groups = Absent /\ in.omega = Absent
        /\ in.fn = "multilayer_resonance" => in.omega = Absent
        /\ in.groups \in {Absent, 1, MaxShapeN}
        /\ in.omega \in {Absent, MaxShapeN} }

InitShape ==
    /\ sh_in \in ShapeInputs
    /\ sh_out = [raised |-> FALSE]
    /\ sh_pc = "call"
    /\ InitShapeOthers

ShapeFrame == UNCHANGED <<sh_in, ShapeOthers>>

BuildFromBasic ==
    /\ sh_pc = "call" /\ sh_in.fn = "build_from_basic"
    /\ sh_out' = build_from_basic(sh_in)
    /\ sh_pc' = "done"
    /\ ShapeFrame

CommunitySetup ==
    /\ sh_pc = "call" /\ sh_in.fn = "community_kuramoto"
    /\ sh_out' = community_simulate(sh_in)
    /\ sh_pc' = "done"
    /\ ShapeFrame

MultilayerSetup ==
    /\ sh_pc = "call" /\ sh_in.fn = "multilayer_resonance"
    /\ sh_out' = multilayer_simulate(sh_in)
    /\ sh_pc' = "done"
    /\ ShapeFrame

NextShape == BuildFromBasic \/ CommunitySetup \/ MultilayerSetup

SpecShape == InitShape /\ [][NextShape]_vars

\* the sizes the preset supplies
SuppliedSizes(in) == { in.N, in.adj, in.groups, in.omega } \ {Absent}

SizesDisagree(in) == \E a, b \in SuppliedSizes(in) : a # b

\* C16: when the supplied sizes disagree the set-up raises; a set-up that
\* does not raise runs with the supplied number of oscillators and the
\* supplied adjacency, never with a substitute.
C16_MismatchRaises ==
    sh_pc = "done" =>
        /\ SizesDisagree(sh_in) => sh_out.raised
        /\ ~sh_out.raised =>
              /\ sh_in.N # Absent => sh_out.N = sh_in.N
              /\ sh_in.adj # Absent => sh_out.adj = sh_in.adj

\* C16: a set-up whose supplied sizes disagreed has raised
C16_Witness ==
    /\ sh_pc = "done" /\ SizesDisagree(sh_in) /\ sh_out.raised
    /\ sh_in.adj # Absent /\ sh_in.N # Absent /\ sh_in.adj # sh_in.N

\* the size checks that the two simulate functions do make
CheckedSizesRaise ==
    sh_pc = "done" /\ sh_in.fn # "build_from_basic" =>
        /\ (sh_in.groups # Absent /\ ~sh_out.raised) => sh_in.groups = sh_out.N
        /\ (sh_in.omega # Absent /\ ~sh_out.raised) => sh_in.omega = sh_out.N
        /\ (sh_in.fn = "multilayer_resonance" /\ sh_in.adj # Absent /\ ~sh_out.raised)
              => sh_in.adj = sh_in.N \/ sh_in.N = Absent

(***************************************************************************)
(* Scheduled interventions.  At every step the run loop walks the list of  *)
(* interventions and then steps the dynamics with the coupling it holds.   *)
(* The coupling is "base" (the configured K) or "raised" (K * factor, or   *)
(* new_K); iv_used records the coupling handed to each step.               *)
(***************************************************************************)
MaxIvT == 3         \* steps of the run, and latest window end

IvTimes == 0..MaxIvT

Interventions == [type : {"increase_coupling", "reduce_noise"}, t_start : IvTimes, t_end : IvTimes]

IvLists == {<<>>} \cup { <<a>> : a \in Interventions }
              \cup { <<a, b>> : a \in { i \in Interventions : i.type = "increase_coupling" },
                                b \in { i \in Interventions : i.type = "reduce_noise" } }
              \cup { <<b, a>> : a \in { i \in Interventions : i.type = "increase_coupling" /\ i.t_start = 1 },
                                b \in { i \in Interventions : i.type = "reduce_noise" } }

active(iv, tm) == iv.t_start <= tm /\ tm < iv.t_end

\* community_kuramoto.simulate, lines 109-123: K_t after the walk over ivs
RECURSIVE community_walk(_, _, _)
community_walk(ivs, tm, k) ==
    IF ivs = <<>> THEN k
    ELSE LET iv == Head(ivs)
             k1 == IF active(iv, tm)
                   THEN (IF iv.type = "increase_coupling" THEN "raised" ELSE k)
                   ELSE "base"
         IN  community_walk(Tail(ivs), tm, k1)

\* multilayer_resonance.simulate, lines 188-199: K_base after the walk
RECURSIVE multilayer_walk(_, _, _)
multilayer_walk(ivs, tm, k) ==
    IF ivs = <<>> THEN k
    ELSE LET iv == Head(ivs)
             k1 == IF active(iv, tm) /\ iv.type = "increase_coupling" THEN "raised" ELSE k
         IN  multilayer_walk(Tail(ivs), tm, k1)

InitIv ==
    /\ iv_in \in [fn : {"community_kuramoto", "multilayer_resonance"}, ivs : IvLists]
    /\ iv_t = 0
    /\ iv_K = "base"
    /\ iv_used = <<>>
    /\ iv_pc = "loop"
    /\ InitIvOthers

CommunityStep ==
    /\ iv_pc = "loop" /\ iv_in.fn = "community_kuramoto" /\ iv_t < MaxIvT
    /\ iv_K' = community_walk(iv_in.ivs, iv_t, iv_K)
    /\ iv_used' = Append(iv_used, iv_K')
    /\ iv_t' = iv_t + 1
    /\ UNCHANGED <<iv_in, iv_pc, IvOthers>>

MultilayerStep ==
    /\ iv_pc = "loop" /\ iv_in.fn = "multilayer_resonance" /\ iv_t < MaxIvT
    /\ iv_K' = multilayer_walk(iv_in.ivs, iv_t, iv_K)
    /\ iv_used' = Append(iv_used, iv_K')
    /\ iv_t' = iv_t + 1
    /\ UNCHANGED <<iv_in, iv_pc, IvOthers>>

IvReturn ==
    /\ iv_pc = "loop" /\ iv_t = MaxIvT
    /\ iv_pc' = "done"
    /\ UNCHANGED <<iv_in, iv_t, iv_K, iv_used, IvOthers>>

NextIv == CommunityStep \/ MultilayerStep \/ IvReturn

SpecIv == InitIv /\ [][NextIv]_vars

\* step t lies in the window of an increase_coupling intervention of the list
InCouplingWindow(ivs, tm) ==
    \E k \in 1..Len(ivs) : ivs[k].type = "increase_coupling" /\ active(ivs[k], tm)

\* C20: the coupling used by step t is the raised one exactly when t lies in
\* the window of an increase_coupling intervention, and the base coupling at
\* every other step, whatever else is listed.
C20_CouplingTimeBounded ==
    \A tm \in 1..Len(iv_used) :
        iv_used[tm] = (IF InCouplingWindow(iv_in.ivs, tm - 1) THEN "raised" ELSE "base")

\* C20: a finished run used the raised coupling inside a window that opened
\* after the start and the base coupling before and after it
C20_Witness ==
    /\ iv_pc = "done" /\ Len(iv_in.ivs) = 1
    /\ iv_in.ivs[1].type = "increase_coupling"
    /\ iv_in.ivs[1].t_start = 1 /\ iv_in.ivs[1].t_end = 2
    /\ iv_used = <<"base", "raised", "base">>

\* in community_kuramoto a single increase_coupling intervention is bounded
\* by its window
SingleInterventionBounded ==
    (iv_in.fn = "community_kuramoto" /\ Len(iv_in.ivs) = 1) => C20_CouplingTimeBounded

(***************************************************************************)
(* One session of the event detector: the series it is fed, and the        *)
(* results of detect_births, evaluate_gates, tuning_recommendations and of *)
(* the packing of the birth events at the end of creation.simulate.  A     *)
(* result is [done |-> FALSE] until the call has returned.                 *)
(***************************************************************************)
Pending == [done |-> FALSE]
Returned(v) == [done |-> TRUE, val |-> v]

GateNames == {"coherence_rising", "gap_narrowing", "anchor_persistence",
              "birth_clustering", "sovereignty"}

\* mutant: the anchor gate has no suggestion
tuning_recommendations_four(s) ==
    LET g == s.gates
        recs == (IF ~g.coherence_rising THEN <<"coherence_rising">> ELSE <<>>)
                \o (IF ~g.gap_narrowing THEN <<"gap_narrowing">> ELSE <<>>)
                \o (IF ~g.birth_clustering THEN <<"birth_clustering">> ELSE <<>>)
                \o (IF ~g.sovereignty THEN <<"sovereignty">> ELSE <<>>)
    IN  IF recs = <<>> THEN <<"hold">> ELSE recs

\* tuning_recommendations: a suggestion is named by the gate it is about,
\* "hold" is 'Creation confirmed. Hold parameters; monitor stability.'
tuning_recommendations(s) ==
    LET g == s.gates
        recs == (IF ~g.coherence_rising THEN <<"coherence_rising">> ELSE <<>>)
                \o (IF ~g.gap_narrowing THEN <<"gap_narrowing">> ELSE <<>>)
                \o (IF ~g.anchor_persistence THEN <<"anchor_persistence">> ELSE <<>>)
                \o (IF ~g.birth_clustering THEN <<"birth_clustering">> ELSE <<>>)
                \o (IF ~g.sovereignty THEN <<"sovereignty">> ELSE <<>>)
    IN  IF recs = <<>> THEN <<"hold">> ELSE recs

\* mutant: the event list is converted without the empty case
pack_events_plain(evs) ==
    IF evs # <<>> THEN [ndim |-> 2, rows |-> Len(evs), cols |-> 3]
    ELSE [ndim |-> 1, rows |-> 0, cols |-> 0]

\* np.array(creation_events, dtype=int) if creation_events
\*   else np.zeros((0,3), dtype=int): the shape of the array
pack_events(evs) ==
    IF evs # <<>> THEN [ndim |-> 2, rows |-> Len(evs), cols |-> 3]
    ELSE [ndim |-> 2, rows |-> 0, cols |-> 3]

DetRValues == {5, 6, 8}         \* R samples, tenths: below r_min, below and above the birth threshold
DetGaps == { <<>>, <<-2, 1>>, <<1, -2>> }
DetHists == { <<>>, << <<0, 0>>, <<0, 0>> >>, << <<0, 0>>, <<0, 2>> >> }
DetEvents == { <<>>, << <<1, 0, 2>> >> }
\* the gate configurations of the bounded calls: intervals of one sample
\* count as births, or only intervals of two samples and more
DetConfigs == { GateConfig, [GateConfig EXCEPT !.birth_min_duration = 2] }

InitDet ==
    /\ det_in \in [R : SeqsUpTo(DetRValues, MaxT), gap : DetGaps, hist : DetHists,
                   cfg : DetConfigs, sov : BOOLEAN, events : DetEvents]
    /\ det_summary = Pending
    /\ det_recs = Pending
    /\ det_births = Pending
    /\ det_events = Pending
    /\ InitDetOthers

DetectBirths ==
    /\ ~det_births.done
    /\ det_births' = Returned(detect_births(det_in.R, det_in.cfg.birth_r_threshold,
                                            det_in.cfg.birth_min_duration))
    /\ UNCHANGED <<det_in, det_summary, det_recs, det_events, DetOthers>>

DetEvaluateGates ==
    /\ ~det_summary.done
    /\ det_summary' = Returned(evaluate_gates(det_in.R, det_in.gap, det_in.hist,
                                              det_in.cfg, det_in.sov))
    /\ UNCHANGED <<det_in, det_recs, det_births, det_events, DetOthers>>

TuningRecommendations ==
    /\ det_summary.done /\ ~det_recs.done
    /\ det_recs' = Returned(tuning_recommendations(det_summary.val))
    /\ UNCHANGED <<det_in, det_summary, det_births, det_events, DetOthers>>

PackEvents ==
    /\ ~det_events.done
    /\ det_events' = Returned(pack_events(det_in.events))
    /\ UNCHANGED <<det_in, det_summary, det_recs, det_births, DetOthers>>

NextDet == DetectBirths \/ DetEvaluateGates \/ TuningRecommendations \/ PackEvents

SpecDet == InitDet /\ [][NextDet]_vars

\* number of entries of recs equal to x
Count(recs, x) == Cardinality({ k \in 1..Len(recs) : recs[k] = x })

\* C17: the suggestions hold exactly one entry for each failing gate and
\* nothing else; when all five gates pass the list is the single 'confirmed,
\* hold' entry, and that entry appears only when the verdict is true.
C17_OneSuggestionPerFailingGate ==
    det_recs.done =>
        LET s == det_summary.val
            recs == det_recs.val
            failing == { g \in GateNames : ~s.gates[g] }
        IN  /\ \A g \in GateNames : Count(recs, g) = (IF g \in failing THEN 1 ELSE 0)
            /\ Count(recs, "hold") = (IF failing = {} THEN 1 ELSE 0)
            /\ Len(recs) = (IF failing = {} THEN 1 ELSE Cardinality(failing))
            /\ Count(recs, "hold") > 0 => s.creation

\* C17: suggestions for a result where exactly the anchor and the sovereignty
\* gates fail
C17_Witness ==
    /\ det_recs.done
    /\ det_recs.val = <<"anchor_persistence", "sovereignty">>
    /\ ~det_summary.val.creation

\* C17, the all-pass case: the single 'hold' entry with a true verdict
C17_WitnessHold ==
    det_recs.done /\ det_recs.val = <<"hold">> /\ det_summary.val.creation

NeverReaches(R, threshold) == \A k \in 1..Len(R) : R[k] < threshold

\* the feed carries nothing to detect: R never reaches the birth threshold
\* (the empty series included), or a series is shorter than its window
NothingToDetect(in) ==
    \/ NeverReaches(in.R, in.cfg.birth_r_threshold)
    \/ Len(in.R) < in.cfg.r_trend_window
    \/ Len(in.gap) < in.cfg.gap_trend_window
    \/ Len(in.hist) < in.cfg.anchor_window

\* C18: when nothing is detected the results are empty and well-typed: no
\* births for an R series that never reaches the threshold, a verdict
\* structure with a false verdict, and a creation_events array of 0 rows
\* and 3 columns for a run without births.
C18_EmptyWellTypedResults ==
    /\ (det_births.done /\ NeverReaches(det_in.R, det_in.cfg.birth_r_threshold))
          => det_births.val = <<>>
    /\ (det_summary.done /\ NothingToDetect(det_in))
          => /\ det_summary.val.metrics.birth_indices \in Seq(0..MaxT)
             /\ det_summary.val.gates \in [GateNames -> BOOLEAN]
             /\ det_summary.val.creation = FALSE
             /\ NeverReaches(det_in.R, det_in.cfg.birth_r_threshold)
                   => det_summary.val.metrics.birth_indices = <<>>
    /\ (det_events.done /\ det_in.events = <<>>)
          => det_events.val = [ndim |-> 2, rows |-> 0, cols |-> 3]

\* C18: every call has returned for the empty feed
C18_Witness ==
    /\ det_in.R = <<>> /\ det_in.gap = <<>> /\ det_in.hist = <<>> /\ det_in.events = <<>>
    /\ det_births.done /\ det_births.val = <<>>
    /\ det_summary.done /\ ~det_summary.val.creation
    /\ det_recs.done
    /\ det_events.done /\ det_events.val.rows = 0 /\ det_events.val.cols = 3

\* C18, second case: a non-empty R series that stays below the threshold
C18_WitnessBelowThreshold ==
    /\ Len(det_in.R) = MaxT /\ NeverReaches(det_in.R, det_in.cfg.birth_r_threshold)
    /\ det_births.done /\ det_births.val = <<>>
    /\ det_summary.done /\ ~det_summary.val.creation

StrictlyIncreasing(R) == \A k \in 1..(Len(R) - 1) : R[k] < R[k + 1]

\* what the feed of the scenario must satisfy besides the births: R strictly
\* increasing with slope at least the minimum, the gap slope at most the
\* (negative) maximum, the anchor fraction at least the threshold
RisingFeed(in, s) ==
    /\ StrictlyIncreasing(in.R)
    /\ ~s.metrics.R_slope.none /\ SlopeGE(s.metrics.R_slope, in.cfg.r_trend_min_slope)
    /\ ~s.metrics.gap_slope.none /\ SlopeLE(s.metrics.gap_slope, in.cfg.gap_trend_max_slope)
    /\ s.metrics.anchor_fraction.num * in.cfg.anchor_min_fraction.den
          >= in.cfg.anchor_min_fraction.num * s.metrics.anchor_fraction.den
    /\ in.sov

StrictlyIncreasingOneBirth ==
    (det_births.done /\ StrictlyIncreasing(det_in.R)) => Len(det_births.val) <= 1

\* with R rising over the trend window (not over the whole series), R_now
\* at least r_min and three births in the series, the rising feed gives a
\* true verdict
RisingWindowVerdictTrue ==
    LET s == det_summary.val
    IN  (/\ det_summary.done
         /\ ~s.metrics.R_slope.none /\ SlopeGE(s.metrics.R_slope, det_in.cfg.r_trend_min_slope)
         /\ s.metrics.R_now >= det_in.cfg.r_min
         /\ ~s.metrics.gap_slope.none
         /\ SlopeLE(s.metrics.gap_slope, det_in.cfg.gap_trend_max_slope)
         /\ s.metrics.anchor_fraction.num * det_in.cfg.anchor_min_fraction.den
               >= det_in.cfg.anchor_min_fraction.num * s.metrics.anchor_fraction.den
         /\ Len(s.metrics.birth_indices) >= 3
         /\ det_in.sov)
        => s.creation

(***************************************************************************)
(* ConsciousnessArchitecture.  The configuration is fixed by __init__;     *)
(* hash(symbol) % len(freqs) is fixed for the process, so the carrier of   *)
(* a symbol is a function chosen at construction.  Frequencies are powers  *)
(* of two so that every ratio is exact; coherence, lock_threshold and      *)
(* resonant_cut are held in units of 1/4000.                               *)
(***************************************************************************)
MaxSignals == 3     \* most receive_signal calls
MaxDepth == 2       \* largest recursion_depth

Symbols == {"a", "b", "c"}
Freqs == {1, 2, 4}
CohUnit == 4000

softclip(x, lo, hi) == IF x < lo THEN lo ELSE IF x > hi THEN hi ELSE x

\* the values of state.oscillations, in insertion order
osc_values(osc, hash) == [k \in 1..Len(osc) |-> hash[osc[k]]]

\* ratios freqs[i] / freqs[i - 1], times 4
ratios4(freqs) == { (4 * freqs[k]) \div freqs[k - 1] : k \in 2..Len(freqs) }

SetMax(S) == CHOOSE x \in S : \A y \in S : y <= x
SetMin(S) == CHOOSE x \in S : \A y \in S : x <= y

\* softclip(0.6 * base + 0.25 * S + 0.15 * O), base = softclip(1 - spread / 10)
coherence_of(freqs, S, O) ==
    LET rs == ratios4(freqs)
        spread4 == IF rs = {} THEN 0 ELSE SetMax(rs) - SetMin(rs)
        base40 == softclip(40 - spread4, 0, 40)
    IN  softclip(60 * base40 + 1000 * S + 600 * O, 0, CohUnit)

\* mutant: the early return does not look at E
integrate_blocked_open(E, n) == n < 2

\* not self.E or len(self.state.oscillations) < 2
integrate_blocked(E, n) == ~E \/ n < 2

\* carriers of the symbols: all equal, rising, and with a large spread
CarrierMaps == { [s \in Symbols |-> 2],
                 [s \in Symbols |-> IF s = "a" THEN 1 ELSE IF s = "b" THEN 2 ELSE 4],
                 [s \in Symbols |-> IF s = "b" THEN 1 ELSE 4] }

CaConfigs ==
    [ E : BOOLEAN, S : {0, 1}, O : {1},
      lock_threshold : {2000, 3900}, resonant_cut : {2800},
      hash : CarrierMaps ]

InitCa ==
    /\ ca_cfg \in CaConfigs
    /\ ca_signals = <<>>
    /\ ca_osc = <<>>
    /\ ca_depth = 0
    /\ ca_coherence = 0
    /\ ca_expression = "None"
    /\ ca_lock = FALSE
    /\ ca_last = "init"
    /\ InitCaOthers

ReceiveSignal(symbol) ==
    /\ Len(ca_signals) < MaxSignals
    /\ ca_signals' = Append(ca_signals, symbol)
    /\ ca_osc' = IF \E k \in 1..Len(ca_osc) : ca_osc[k] = symbol THEN ca_osc
                 ELSE Append(ca_osc, symbol)
    /\ ca_last' = "receive_signal"
    /\ UNCHANGED <<ca_cfg, ca_depth, ca_coherence, ca_expression, ca_lock, CaOthers>>

RecursiveResonance(depth) ==
    /\ ca_depth + depth <= MaxDepth
    /\ ca_depth' = ca_depth + depth
    /\ ca_last' = "recursive_resonance"
    /\ UNCHANGED <<ca_cfg, ca_signals, ca_osc, ca_coherence, ca_expression, ca_lock, CaOthers>>

Integrate ==
    /\ IF integrate_blocked(ca_cfg.E, Len(ca_osc))
       THEN ca_coherence' = 0 /\ ca_lock' = FALSE
       ELSE /\ ca_coherence' = coherence_of(osc_values(ca_osc, ca_cfg.hash), ca_cfg.S, ca_cfg.O)
            /\ ca_lock' = (ca_coherence' >= ca_cfg.lock_threshold)
    /\ ca_last' = "integrate"
    /\ UNCHANGED <<ca_cfg, ca_signals, ca_osc, ca_depth, ca_expression, CaOthers>>

\* min(oscillations, key=|f - 528|): the first key whose carrier is nearest
nearest_key(osc, hash) ==
    LET d(k) == 528 - hash[osc[k]]
        k0 == CHOOSE k \in 1..Len(osc) :
                /\ \A j \in 1..Len(osc) : d(k) <= d(j)
                /\ \A j \in 1..(k - 1) : d(j) > d(k)
    IN  osc[k0]

Express ==
    /\ ca_expression' =
          IF ca_coherence >= ca_cfg.resonant_cut
          THEN (IF ca_osc # <<>> THEN nearest_key(ca_osc, ca_cfg.hash) ELSE "signal")
          ELSE "noise:misaligned"
    /\ ca_last' = "express"
    /\ UNCHANGED <<ca_cfg, ca_signals, ca_osc, ca_depth, ca_coherence, ca_lock, CaOthers>>

NextCa ==
    \/ \E symbol \in Symbols : ReceiveSignal(symbol)
    \/ \E depth \in 1..MaxDepth : RecursiveResonance(depth)
    \/ Integrate
    \/ Express

SpecCa == InitCa /\ [][NextCa]_vars

\* C21: atlas_lock is true only if the ethical gate E is true and the stored
\* coherence is at or above lock_threshold; with E false the stored
\* coherence is 0 and atlas_lock is false.
C21_LockRequiresEthicsAndCoherence ==
    /\ ca_lock => (ca_cfg.E /\ ca_coherence >= ca_cfg.lock_threshold)
    /\ ~ca_cfg.E => (ca_coherence = 0 /\ ~ca_lock)

\* C21: integrate has locked, and later calls left the lock in place
C21_Witness ==
    /\ ca_lock /\ ca_cfg.E /\ ca_coherence >= ca_cfg.lock_threshold
    /\ ca_last = "express" /\ Len(ca_osc) >= 2

\* C21, second case: E is true and integrate stored a coherence below the
\* threshold, without a lock
C21_WitnessBelowThreshold ==
    /\ ca_cfg.E /\ ca_last = "integrate" /\ Len(ca_osc) >= 2
    /\ ca_coherence > 0 /\ ca_coherence < ca_cfg.lock_threshold /\ ~ca_lock

(***************************************************************************)
(* Anchor age in creation.simulate (the same lines stand in                *)
(* crystallization_points.simulate and braided_field.simulate).            *)
(***************************************************************************)
\* C22: the age of an anchor increases in a step only if its resource is
\* below the starvation threshold in that step.
C22_AgeGrowsOnlyWhileStarved ==
    [][ \A i \in SimNodes :
          anchor_age'[i] > anchor_age[i] => r[i] < CreationConfig.starve_threshold
      ]_vars

\* C22: a starved anchor has aged over several decay passes
C22_Witness ==
    /\ sim_pc = "advance"
    /\ \E i \in SimNodes :
         /\ is_anchor[i] /\ r[i] < CreationConfig.starve_threshold
         /\ anchor_age[i] >= 2 /\ decay_prob[i] # ZeroProb

\* the age of a node grows by one in every decay pass in which it is an
\* anchor that is not dropped, starved or not
AgeGrowsWhileAnchor ==
    [][ sim_pc = "decay" =>
          \A i \in SimNodes :
            (is_anchor[i] /\ is_anchor'[i]) => anchor_age'[i] = anchor_age[i] + 1
      ]_vars

\* C23: a realized drop clears the anchor flag and the age in the same step
\* and promotion starts from age 0, so every node that is not an anchor has
\* age 0.
C23_NonAnchorHasAgeZero ==
    \A i \in SimNodes : ~is_anchor[i] => anchor_age[i] = 0

\* C23: a starved anchor has just been dropped, while another anchor, which
\* has aged, stays
C23_Witness ==
    /\ sim_pc = "advance"
    /\ \E i, j \in SimNodes :
         /\ ~is_anchor[i] /\ decay_prob[i] # ZeroProb /\ anchor_age[i] = 0
         /\ is_anchor[j] /\ anchor_age[j] >= 2

(***************************************************************************)
(* Number of edges under small-world rewiring.                             *)
(***************************************************************************)
\* number of directed entries: twice the number of undirected edges
EntryCount(M) == Cardinality(M)
NbrEntryCount(nb) == Cardinality({ <<i, j>> \in (DOMAIN nb) \X (DOMAIN nb) : j \in nb[i] })

\* C24: each rewire removes exactly one edge and adds exactly one new edge,
\* so the number of undirected edges stays the number of edges of the
\* initial ring lattice (matrix rewiring of make_default_layers and of
\* community_kuramoto.simulate).
C24_RewireKeepsEdgeCount ==
    [][ /\ EntryCount(A') = EntryCount(A)
        /\ A' # A => (<<ml_i, ml_j>> \notin A' /\ <<rw'.i, rw'.new>> \notin A)
      ]_vars

\* C24: an edge was removed and a new one stands in its place
C24_Witness ==
    /\ rw # NoRewire /\ rw.new # rw.j
    /\ <<rw.i, rw.j>> \notin A /\ <<rw.i, rw.new>> \in A /\ <<rw.new, rw.i>> \in A

\* the set-based rewiring of creation.watts_strogatz keeps the edge count
WSRewireKeepsEdgeCount ==
    [][ /\ NbrEntryCount(nbrs') = NbrEntryCount(nbrs)
        /\ nbrs' # nbrs => (rw'.j \notin nbrs'[rw'.i] /\ rw'.new \notin nbrs[rw'.i])
      ]_vars

(***************************************************************************)
(* crystallization_points.simulate.  Floats that can become not-a-number   *)
(* are held as Fin(v) or NaN; the bounded runs use the nodes, phase and    *)
(* resource vectors and topologies of the creation runs.  The body of the  *)
(* loop is cut in three steps:                                             *)
(*   "observe"    local coherence, window buffer, crystallization          *)
(*   "decay"      anchor decay                                             *)
(*   "integrate"  logs, phase integration, resource update                 *)
(***************************************************************************)
CpSteps == 5        \* cfg.steps of the bounded runs

Fin(v) == [nan |-> FALSE, val |-> v]

\* CrystalConfig of the bounded runs; thresholds are the defaults
\* (hundredths), K_anchor_boost is in tenths
CrystalConfig ==
    [ steps |-> CpSteps, window |-> 3, Ks |-> {0, 10},
      thresh_R_local |-> 85, thresh_resource |-> 55,
      K_anchor_boost |-> 6,
      anchor_half_life |-> 2, starve_threshold |-> 35 ]

CpW == CrystalConfig.window

\* x >= limit, x < limit on floats: a comparison with NaN is False
FinGE(x, limit) == ~x.nan /\ x.val >= limit
FinLT(x, limit) == ~x.nan /\ x.val < limit

\* group = np.concatenate(([i], nbrs[i]));
\* np.abs(np.mean(np.exp(1j * phi[group]))), times RScale
cp_local_R(i, ph, nb) ==
    IF \E j \in nb[i] \cup {i} : ph[j].nan THEN NaN
    ELSE Fin((RScale * Abs(SetSum([j \in SimNodes |-> 1 - 2 * ph[j].val], nb[i] \cup {i})))
                \div (1 + Cardinality(nb[i])))

\* Rbuf.mean(axis=0)[i] >= limit (hundredths)
CpWindowMeanGE(buf, i, limit) ==
    /\ \A k \in 0..(CpW - 1) : ~buf[k][i].nan
    /\ 100 * SetSum([k \in 0..(CpW - 1) |-> buf[k][i].val], 0..(CpW - 1))
          >= limit * CpW * RScale

\* mutant: the write pointer does not advance
wptr_stuck(w) == w

\* wptr = (wptr + 1) % cfg.window
wptr_next(w) == (w + 1) % CpW

\* x / k for x >= 0: numpy returns inf for x / 0 and nan for 0 / 0
np_divide(x, k) ==
    IF k # 0 THEN "finite" ELSE IF x = 0 THEN "nan" ELSE "inf"

\* dphi * scale, where dphi is finite and iszero tells whether it is 0.0
np_multiply(iszero, scale) ==
    IF scale = "nan" THEN "nan"
    ELSE IF scale = "inf" THEN (IF iszero THEN "nan" ELSE "inf")
    ELSE "finite"

\* the denominator of effective_K / cfg.K
K_denominator(k) == k

\* whether phases[i] is finite after lines 131-153
phase_stays_finite(i, ph, nb, isa, k) ==
    LET touches == isa[i] \/ \E j \in nb[i] : isa[j]
        effective_K == IF touches THEN k + CrystalConfig.K_anchor_boost ELSE k
        \* dphi[i] = K * sin(...) for a node with neighbours, 0.0 otherwise;
        \* a NaN neighbour makes it NaN
        dphi_nan == nb[i] # {} /\ \E j \in nb[i] \cup {i} : ph[j].nan
        dphi_zero == nb[i] = {} \/ k = 0
        term == IF dphi_nan THEN "nan"
                ELSE np_multiply(dphi_zero, np_divide(effective_K, K_denominator(k)))
    IN  ~ph[i].nan /\ term = "finite"

CpPhaseVectors == { [i \in SimNodes |-> Fin(pv[i])] : pv \in PhaseVectors }
CpResourceVectors == { [i \in SimNodes |-> Fin(rv[i])] : rv \in ResourceVectors }

InitCp ==
    /\ cp_K \in CrystalConfig.Ks
    /\ cp_nbrs \in SimTopologies
    /\ cp_phases \in CpPhaseVectors
    /\ cp_r \in CpResourceVectors
    /\ cp_is_anchor = [i \in SimNodes |-> FALSE]
    /\ cp_anchor_age = [i \in SimNodes |-> 0]
    /\ cp_R_local = <<>>
    /\ cp_Rbuf = [k \in 0..(CpW - 1) |-> [i \in SimNodes |-> Fin(0)]]
    /\ cp_wptr = 0 /\ cp_warm = 0
    /\ cp_t = 0 /\ cp_pc = "observe"
    /\ InitCpOthers

\* lines 99-113
CpObserve ==
    /\ cp_pc = "observe"
    /\ LET row == [i \in SimNodes |-> cp_local_R(i, cp_phases, cp_nbrs)]
       IN  /\ cp_R_local' = Append(cp_R_local, row)
           /\ cp_Rbuf' = [cp_Rbuf EXCEPT ![cp_wptr] = row]
    /\ cp_wptr' = wptr_next(cp_wptr)
    /\ cp_warm' = Min(cp_warm + 1, CpW)
    /\ LET ta == IF cp_warm' = CpW
                 THEN { i \in SimNodes :
                          /\ ~cp_is_anchor[i]
                          /\ CpWindowMeanGE(cp_Rbuf', i, CrystalConfig.thresh_R_local)
                          /\ FinGE(cp_r[i], CrystalConfig.thresh_resource) }
                 ELSE {}
       IN  /\ cp_is_anchor' = [i \in SimNodes |-> cp_is_anchor[i] \/ i \in ta]
           /\ cp_anchor_age' = [i \in SimNodes |-> IF i \in ta THEN 0 ELSE cp_anchor_age[i]]
    /\ cp_pc' = "decay"
    /\ UNCHANGED <<cp_K, cp_nbrs, cp_phases, cp_r, cp_t, CpOthers>>

\* lines 115-123
CpDecay ==
    /\ cp_pc = "decay"
    /\ LET starving == { i \in SimNodes :
                           cp_is_anchor[i] /\ FinLT(cp_r[i], CrystalConfig.starve_threshold) }
           aged == [i \in SimNodes |-> IF cp_is_anchor[i] THEN cp_anchor_age[i] + 1
                                       ELSE cp_anchor_age[i]]
           hl == Max(1, CrystalConfig.anchor_half_life)
       IN  \E u \in [starving -> Draws] :
             LET drop == { i \in starving : DrawBelow(u[i], decay_prob_of(aged[i], hl)) }
             IN  /\ cp_is_anchor' = [i \in SimNodes |-> cp_is_anchor[i] /\ i \notin drop]
                 /\ cp_anchor_age' = [i \in SimNodes |-> IF i \in drop THEN 0 ELSE aged[i]]
    /\ cp_pc' = "integrate"
    /\ UNCHANGED <<cp_K, cp_nbrs, cp_phases, cp_r, cp_R_local, cp_Rbuf, cp_wptr, cp_warm,
                   cp_t, CpOthers>>

\* lines 125-159: a finite phase or resource can take any value of the
\* bounded vectors (the noise has full support), a non-finite one is NaN
CpIntegrate ==
    /\ cp_pc = "integrate"
    /\ cp_phases' \in { pv \in CpPhaseVectors \cup {[i \in SimNodes |-> NaN]} :
                          \A i \in SimNodes :
                            pv[i].nan <=> ~phase_stays_finite(i, cp_phases, cp_nbrs,
                                                              cp_is_anchor, cp_K) }
    /\ cp_r' \in { rv \in CpResourceVectors \cup {[i \in SimNodes |-> NaN]} :
                     \A i \in SimNodes :
                       rv[i].nan <=> (cp_r[i].nan \/ cp_R_local[cp_t + 1][i].nan) }
    /\ cp_t' = cp_t + 1
    /\ cp_pc' = IF cp_t + 1 < CrystalConfig.steps THEN "observe" ELSE "done"
    /\ UNCHANGED <<cp_K, cp_nbrs, cp_is_anchor, cp_anchor_age, cp_R_local, cp_Rbuf,
                   cp_wptr, cp_warm, CpOthers>>

NextCp == CpObserve \/ CpDecay \/ CpIntegrate

SpecCp == InitCp /\ [][NextCp]_vars

\* C25: for a node with no neighbours the local coherence is reported as
\* 0.0, in every row of R_local.
C25_IsolatedNodeCoherenceZero ==
    \A k \in 1..Len(cp_R_local) : \A i \in SimNodes :
        cp_nbrs[i] = {} => cp_R_local[k][i] = Fin(0)

\* C25: local coherence has been recorded for a graph with isolated nodes
C25_Witness ==
    /\ Len(cp_R_local) >= 1 /\ \E i \in SimNodes : cp_nbrs[i] = {}
    /\ cp_pc = "decay"

\* a node with neighbours in a run with K > 0 gets the coherence of its group
NeighbouredNodeCoherence ==
    \A k \in 1..Len(cp_R_local) : \A i \in SimNodes :
        (cp_nbrs[i] # {} /\ cp_K # 0) =>
            (~cp_R_local[k][i].nan /\ cp_R_local[k][i].val <= RScale)

\* C26: no step divides by zero unguarded: also with base coupling K = 0
\* every phase is a finite number after the step.
C26_PhasesStayFinite ==
    \A i \in SimNodes : ~cp_phases[i].nan

\* C26: a step has integrated the phases with the anchor boost in effect
C26_Witness ==
    /\ cp_t >= CpW /\ cp_pc = "observe"
    /\ \E i \in SimNodes : cp_is_anchor[i]
    /\ \A i \in SimNodes : ~cp_phases[i].nan

\* with K > 0 every phase stays finite
PhasesFiniteWithCoupling == cp_K # 0 => C26_PhasesStayFinite

\* C29: once W or more steps have run the buffer holds exactly the local
\* coherence rows of the last W steps, the oldest at the write pointer; the
\* write pointer stays in [0, W); the warm-up counter is min(steps run, W),
\* so it never decreases and never exceeds W.
C29_BufferHoldsLastWindow ==
    /\ cp_wptr \in 0..(CpW - 1)
    /\ cp_wptr = Len(cp_R_local) % CpW
    /\ cp_warm = Min(Len(cp_R_local), CpW)
    /\ Len(cp_R_local) >= CpW =>
          \A k \in 0..(CpW - 1) :
             cp_Rbuf[(cp_wptr + k) % CpW] = cp_R_local[Len(cp_R_local) - CpW + k + 1]

\* C29: the buffer has wrapped around and the rows it holds differ
C29_Witness ==
    /\ Len(cp_R_local) > CpW /\ cp_warm = CpW /\ cp_wptr = 1
    /\ cp_Rbuf[0] # cp_Rbuf[1]
    /\ cp_Rbuf[0] = cp_R_local[Len(cp_R_local)]

(***************************************************************************)
(* detect_births and the birth-clustering gate, on the calls of SpecDet    *)
(***************************************************************************)
\* the samples of the call that are at or above the birth threshold
AboveAt(k) ==
    k \in 0..(Len(det_in.R) - 1) /\ det_in.R[k + 1] >= det_in.cfg.birth_r_threshold

\* index k opens an interval that lasts birth_min_duration samples or more
Sustained(k) ==
    \A j \in k..(k + det_in.cfg.birth_min_duration - 1) : AboveAt(j)

\* the indices at which R comes from below the threshold and stays
CrossingsFromBelow ==
    { k \in 1..(Len(det_in.R) - 1) : ~AboveAt(k - 1) /\ Sustained(k) }

\* the indices at which a sustained interval begins: a crossing from below,
\* or the first sample of a series that begins at or above the threshold
IntervalStarts ==
    { k \in 0..(Len(det_in.R) - 1) : (k = 0 \/ ~AboveAt(k - 1)) /\ Sustained(k) }

\* s lists the members of S in increasing order, each once
ListsInOrder(s, S) ==
    /\ { s[k] : k \in 1..Len(s) } = S
    /\ \A k \in 1..(Len(s) - 1) : s[k] < s[k + 1]

C27_WitnessLeadingInterval ==
    /\ det_births.done /\ Len(det_births.val) >= 1 /\ det_births.val[1] = 0

\* the births that evaluate_gates finds in the series of the call
GateBirths ==
    detect_births(det_in.R, det_in.cfg.birth_r_threshold, det_in.cfg.birth_min_duration)

C30_WitnessThreeBirths ==
    /\ det_summary.done /\ Len(GateBirths) = 3
    /\ det_summary.val.gates.birth_clustering

(***************************************************************************)
(* The sources and targets of the edges born in one growth check           *)
(***************************************************************************)
\* the edge born by this step, where one is born
BornEdge == creation_events'[Len(creation_events')]

\* this step appends an event
EdgeIsBorn == Len(creation_events') = Len(creation_events) + 1

\* C28: in one growth check each selected node gains exactly one edge: the
\* source of an edge born in a step differs from the sources of the edges
\* born earlier in the same step, and the target is one of the source's
\* current non-neighbours.
C28_OneEdgePerSelectedNode ==
    [][ EdgeIsBorn =>
          /\ BornEdge[3] \in pool(BornEdge[2], nbrs)
          /\ \A k \in 1..Len(creation_events) :
                creation_events[k][1] = BornEdge[1]
                  => creation_events[k][2] # BornEdge[2] ]_vars

\* C28: two edges were born in the same growth check
C28_Witness ==
    /\ Len(creation_events) = 2
    /\ creation_events[1][1] = creation_events[2][1]
    /\ creation_events[1][2] # creation_events[2][2]
    /\ sim_pc # "grow"

\* every edge is born between a source and one of its non-neighbours, which
\* become neighbours of each other
TargetIsNonNeighbour ==
    [][ EdgeIsBorn =>
          /\ BornEdge[3] \in pool(BornEdge[2], nbrs)
          /\ HasEdge(nbrs', BornEdge[2], BornEdge[3]) ]_vars

====
